---- MODULE Spec2Model ----
(***************************************************************************)
(* SceneSplit front end: the budget view (BudgetView.vue, kept under       *)
(* src/frontend/src/types/project.ts) and the AI chat panel                *)
(* (AIChatPanel.vue, src/unnamed/part_000).                                *)
(*                                                                         *)
(* JavaScript strings are sequences of one-character strings, so that      *)
(* stripping, parsing and rendering are computed character by character.   *)
(* JavaScript numbers are records [nan, v]: v is the value in units of     *)
(* 1/Scale (exact fixed point), nan marks NaN.  Floating-point error is    *)
(* not modelled: it only matters when amount/total*100 lies within 1e-13   *)
(* of a rounding tie.  Totals stay below 20000 so that 10 * v fits the     *)
(* 32-bit integers of the model checker.                                   *)
(***************************************************************************)
EXTENDS Integers, Sequences, FiniteSets, TLC

(***************************************************************************)
(* Numbers                                                                 *)
(***************************************************************************)

\* toLocaleString() keeps at most three fraction digits (the default
\* maximumFractionDigits of Intl.NumberFormat).
MaximumFractionDigits == 3

\* Numbers carry one fraction digit more than the display keeps.
FractionDigits == MaximumFractionDigits + 1

Scale == 10 ^ FractionDigits

Num(v) == [nan |-> FALSE, v |-> v]

NaN == [nan |-> TRUE, v |-> 0]

\* a + b of JavaScript: NaN when either operand is NaN.
NumAdd(a, b) == IF a.nan \/ b.nan THEN NaN ELSE Num(a.v + b.v)

\* a > b, a < b, a === b of JavaScript: every comparison with NaN is false.
NumGt(a, b) == ~a.nan /\ ~b.nan /\ a.v > b.v

NumLt(a, b) == ~a.nan /\ ~b.nan /\ a.v < b.v

NumEq(a, b) == ~a.nan /\ ~b.nan /\ a.v = b.v

(***************************************************************************)
(* Strings                                                                 *)
(***************************************************************************)

Digits == {"0", "1", "2", "3", "4", "5", "6", "7", "8", "9"}

DigitVal == [c \in Digits |->
               CASE c = "0" -> 0 [] c = "1" -> 1 [] c = "2" -> 2 [] c = "3" -> 3
                 [] c = "4" -> 4 [] c = "5" -> 5 [] c = "6" -> 6 [] c = "7" -> 7
                 [] c = "8" -> 8 [] c = "9" -> 9]

DigitChar == [d \in 0..9 |-> CHOOSE c \in Digits : DigitVal[c] = d]

LowerCase == {"a", "b", "c", "d", "e", "f", "g", "h", "i", "j", "k", "l", "m",
              "n", "o", "p", "q", "r", "s", "t", "u", "v", "w", "x", "y", "z"}

UpperCase == {"A", "B", "C", "D", "E", "F", "G", "H", "I", "J", "K", "L", "M",
              "N", "O", "P", "Q", "R", "S", "T", "U", "V", "W", "X", "Y", "Z"}

\* String.prototype.toUpperCase on one character.
ToUpper(c) ==
  CASE c = "a" -> "A" [] c = "b" -> "B" [] c = "c" -> "C" [] c = "d" -> "D"
    [] c = "e" -> "E" [] c = "f" -> "F" [] c = "g" -> "G" [] c = "h" -> "H"
    [] c = "i" -> "I" [] c = "j" -> "J" [] c = "k" -> "K" [] c = "l" -> "L"
    [] c = "m" -> "M" [] c = "n" -> "N" [] c = "o" -> "O" [] c = "p" -> "P"
    [] c = "q" -> "Q" [] c = "r" -> "R" [] c = "s" -> "S" [] c = "t" -> "T"
    [] c = "u" -> "U" [] c = "v" -> "V" [] c = "w" -> "W" [] c = "x" -> "X"
    [] c = "y" -> "Y" [] c = "z" -> "Z" [] OTHER -> c

\* String.prototype.toLowerCase on one character.
ToLower(c) ==
  IF c \in UpperCase THEN CHOOSE l \in LowerCase : ToUpper(l) = c ELSE c

\* The characters of s that are in keep, in order: s.replace(/[^keep]/g, '').
RECURSIVE KeepChars(_, _)
KeepChars(s, keep) ==
  IF s = <<>> THEN <<>>
  ELSE (IF Head(s) \in keep THEN <<Head(s)>> ELSE <<>>) \o KeepChars(Tail(s), keep)

RECURSIVE CountChar(_, _)
CountChar(s, c) ==
  IF s = <<>> THEN 0
  ELSE (IF Head(s) = c THEN 1 ELSE 0) + CountChar(Tail(s), c)

\* Index of the first c in s, 0 when there is none.
RECURSIVE IndexOf(_, _)
IndexOf(s, c) ==
  IF s = <<>> THEN 0
  ELSE IF Head(s) = c THEN 1
  ELSE LET r == IndexOf(Tail(s), c) IN IF r = 0 THEN 0 ELSE r + 1

\* The value of a digit string as an integer ("" is 0).
RECURSIVE DigitsValue(_)
DigitsValue(s) ==
  IF s = <<>> THEN 0
  ELSE DigitsValue(SubSeq(s, 1, Len(s) - 1)) * 10 + DigitVal[s[Len(s)]]

\* The decimal digits of a natural number, without leading zeros ("0" for 0).
RECURSIVE NatDigits(_)
NatDigits(n) ==
  IF n < 10 THEN <<DigitChar[n]>>
  ELSE NatDigits(n \div 10) \o <<DigitChar[n % 10]>>

RECURSIVE StripTrailingZeros(_)
StripTrailingZeros(s) ==
  IF s # <<>> /\ s[Len(s)] = "0" THEN StripTrailingZeros(SubSeq(s, 1, Len(s) - 1))
  ELSE s

\* n written with exactly w digits (leading zeros).
RECURSIVE PadDigits(_, _)
PadDigits(n, w) ==
  IF w = 0 THEN <<>> ELSE PadDigits(n \div 10, w - 1) \o <<DigitChar[n % 10]>>

\* Number(s) for a string of digits and dots only (StringToNumber of
\* ECMAScript): "" is 0; "12", "1.5", ".5", "5." are decimal literals; "." and
\* anything with two dots is NaN.  Fraction digits beyond FractionDigits are
\* outside the fixed point and are not drawn as inputs.
UnsignedToNumber(s) ==
  IF s = <<>> THEN Num(0)
  ELSE IF CountChar(s, ".") > 1 \/ s = <<".">> THEN NaN
  ELSE LET dot  == IndexOf(s, ".")
           int  == IF dot = 0 THEN s ELSE SubSeq(s, 1, dot - 1)
           frac == IF dot = 0 THEN <<>> ELSE SubSeq(s, dot + 1, Len(s))
           fpad == SubSeq(frac \o <<"0", "0", "0", "0", "0", "0", "0", "0">>,
                          1, FractionDigits)
       IN Num(DigitsValue(int) * Scale + DigitsValue(fpad))

\* Number(s) for the strings the amount input can hold: an optional leading
\* "-" before digits and dots; any other character makes it NaN (the inputs
\* drawn contain no exponent, hex, Infinity or blank-only spellings).
ToNumber(s) ==
  IF s = <<>> THEN Num(0)
  ELSE IF \E i \in 1..Len(s) : s[i] \notin Digits \cup {".", "-"} THEN NaN
  ELSE IF Head(s) = "-"
       THEN LET t == Tail(s)
                u == UnsignedToNumber(t)
            IN IF t = <<>> \/ CountChar(t, "-") > 0 \/ u.nan THEN NaN
               ELSE Num(0 - u.v)
  ELSE IF CountChar(s, "-") > 0 THEN NaN
  ELSE UnsignedToNumber(s)

\* String(x) / `${x}` for a number (Number::toString): the shortest decimal,
\* no grouping, no trailing zeros, "NaN" for NaN.
NumberToString(x) ==
  IF x.nan THEN <<"N", "a", "N">>
  ELSE LET a    == IF x.v < 0 THEN 0 - x.v ELSE x.v
           frac == StripTrailingZeros(PadDigits(a % Scale, FractionDigits))
       IN (IF x.v < 0 THEN <<"-">> ELSE <<>>)
          \o NatDigits(a \div Scale)
          \o (IF frac = <<>> THEN <<>> ELSE <<".">> \o frac)

\* Digits grouped in threes from the right with "," (en-US / ms-MY grouping).
RECURSIVE GroupThousands(_)
GroupThousands(s) ==
  IF Len(s) <= 3 THEN s
  ELSE GroupThousands(SubSeq(s, 1, Len(s) - 3)) \o <<",">>
       \o SubSeq(s, Len(s) - 2, Len(s))

\* x rounded to MaximumFractionDigits fraction digits, ties away from zero,
\* in units of 1/10^MaximumFractionDigits (x is not negative).
RoundToMaximumFractionDigits(x) ==
  LET unit == 10 ^ (FractionDigits - MaximumFractionDigits)
  IN (x.v + unit \div 2) \div unit

\* A rendering without grouping and with the same fraction digits.
ToUngroupedString(x) ==
  IF x.nan THEN <<"N", "a", "N">>
  ELSE LET r     == RoundToMaximumFractionDigits(x)
           kept  == 10 ^ MaximumFractionDigits
           frac  == StripTrailingZeros(PadDigits(r % kept, MaximumFractionDigits))
       IN NatDigits(r \div kept)
          \o (IF frac = <<>> THEN <<>> ELSE <<".">> \o frac)

\* x.toLocaleString() for a non-negative number in an English-style locale
\* (en-US, en-MY, ms-MY): integer part grouped, the fraction rounded to at
\* most three digits, trailing zeros dropped, "NaN" for NaN.
ToLocaleString(x) ==
  IF x.nan THEN <<"N", "a", "N">>
  ELSE LET r     == RoundToMaximumFractionDigits(x)
           kept  == 10 ^ MaximumFractionDigits
           frac  == StripTrailingZeros(PadDigits(r % kept, MaximumFractionDigits))
       IN GroupThousands(NatDigits(r \div kept))
          \o (IF frac = <<>> THEN <<>> ELSE <<".">> \o frac)

(***************************************************************************)
(* Budget view: categories                                                 *)
(***************************************************************************)

K_talent == <<"t", "a", "l", "e", "n", "t">>

K_location == <<"l", "o", "c", "a", "t", "i", "o", "n">>

K_propsSet == <<"p", "r", "o", "p", "s", "S", "e", "t">>

K_wardrobeMakeup ==
  <<"w", "a", "r", "d", "r", "o", "b", "e", "M", "a", "k", "e", "u", "p">>

K_sfxVfx == <<"s", "f", "x", "V", "f", "x">>

K_crew == <<"c", "r", "e", "w">>

K_miscellaneous ==
  <<"m", "i", "s", "c", "e", "l", "l", "a", "n", "e", "o", "u", "s">>

\* The seven keys of categoryColors and nameMap, in their order of appearance.
CategoryKeys ==
  <<K_talent, K_location, K_propsSet, K_wardrobeMakeup, K_sfxVfx, K_crew,
    K_miscellaneous>>

CategoryKeySet == {CategoryKeys[i] : i \in 1..Len(CategoryKeys)}

categoryColors ==
  [k \in CategoryKeySet |->
     CASE k = K_talent -> "#00C6FB" [] k = K_location -> "#FFD233"
       [] k = K_propsSet -> "#3DD65B" [] k = K_wardrobeMakeup -> "#A259FF"
       [] k = K_sfxVfx -> "#FF6B6B" [] k = K_crew -> "#FF9900"
       [] k = K_miscellaneous -> "#FFB300"]

nameMap ==
  [k \in CategoryKeySet |->
     CASE k = K_talent -> <<"T", "a", "l", "e", "n", "t">>
       [] k = K_location -> <<"L", "o", "c", "a", "t", "i", "o", "n">>
       [] k = K_propsSet ->
            <<"P", "r", "o", "p", "s", " ", "&", " ", "S", "e", "t">>
       [] k = K_wardrobeMakeup ->
            <<"W", "a", "r", "d", "r", "o", "b", "e", " ", "&", " ",
              "M", "a", "k", "e", "u", "p">>
       [] k = K_sfxVfx -> <<"S", "F", "X", " ", "&", " ", "V", "F", "X">>
       [] k = K_crew -> <<"C", "r", "e", "w">>
       [] k = K_miscellaneous ->
            <<"M", "i", "s", "c", "e", "l", "l", "a", "n", "e", "o", "u", "s">>]

\* key.replace(/([A-Z])/g, ' $1'): a space before every capital letter.
RECURSIVE SpaceBeforeCapitals(_)
SpaceBeforeCapitals(s) ==
  IF s = <<>> THEN <<>>
  ELSE (IF Head(s) \in UpperCase THEN <<" ", Head(s)>> ELSE <<Head(s)>>)
       \o SpaceBeforeCapitals(Tail(s))

\* s.replace(/^./, c => c.toUpperCase()): the first character in upper case.
CapitalizeFirst(s) ==
  IF s = <<>> THEN <<>> ELSE <<ToUpper(Head(s))>> \o Tail(s)

\* A fall-back that files every unknown key under Miscellaneous.
FormatUnknownAsMiscellaneous(key) ==
  IF key \in DOMAIN nameMap THEN nameMap[key] ELSE nameMap[K_miscellaneous]

formatCategoryName(key) ==
  IF key \in DOMAIN nameMap THEN nameMap[key]
  ELSE CapitalizeFirst(SpaceBeforeCapitals(key))

\* val.replace(/[^\d.]/g, '') and Number(): the "!val" test returns 0 for the
\* empty string, which Number('') does as well.
parseRM(val) ==
  IF val = <<>> THEN Num(0)
  ELSE UnsignedToNumber(KeepChars(val, Digits \cup {"."}))

\* `RM ${x}`
RM(text) == <<"R", "M", " ">> \o text

(***************************************************************************)
(* Budget view: the breakdown computed                                     *)
(*                                                                         *)
(* A budget object is the sequence of its [key, val] entries in insertion  *)
(* order, which is the order of Object.keys, Object.values and             *)
(* Object.entries for keys that are not array indices.                     *)
(***************************************************************************)

\* Object.values(budgetObj).map(v => parseRM(v)).reduce((a, b) => a + b, 0)
RECURSIVE SumAmounts(_)
SumAmounts(budgetObj) ==
  IF budgetObj = <<>> THEN Num(0)
  ELSE NumAdd(SumAmounts(SubSeq(budgetObj, 1, Len(budgetObj) - 1)),
              parseRM(budgetObj[Len(budgetObj)].val))

\* One digit of a long division by t: x.q and x.r are the quotient and the
\* remainder so far.
DivideStep(x, t) == [q |-> 10 * x.q + (10 * x.r) \div t, r |-> (10 * x.r) % t]

\* a / t * 100 in tenths: quotient q and remainder r of 1000 * a by t,
\* computed digit by digit so that no intermediate value exceeds 10 * t.
Tenths(a, t) ==
  DivideStep(DivideStep(DivideStep([q |-> a \div t, r |-> a % t], t), t), t)

\* The percent cut off after one decimal instead of rounded.
PercentTruncated(amount, total) ==
  IF amount.nan \/ total.nan THEN NaN
  ELSE Num(Tenths(amount.v, total.v).q * (Scale \div 10))

\* +(amount / total * 100).toFixed(1): one decimal, ties away from zero.
\* The result is a number again (in units of 1/Scale); NaN stays NaN.
PercentOf(amount, total) ==
  IF amount.nan \/ total.nan THEN NaN
  ELSE LET x == Tenths(amount.v, total.v)
       IN Num((x.q + (IF 2 * x.r >= total.v THEN 1 ELSE 0)) * (Scale \div 10))

\* The record the map callback builds for one entry.
CategoryItem(entry, total) ==
  LET amount == parseRM(entry.val)
  IN [name    |-> formatCategoryName(entry.key),
      amount  |-> RM(ToLocaleString(amount)),
      percent |-> PercentOf(amount, total),
      color   |-> IF entry.key \in DOMAIN categoryColors
                  THEN categoryColors[entry.key] ELSE "#888888"]

\* A filter that tests percent >= 0.
RECURSIVE FilterNotNegative(_)
FilterNotNegative(items) ==
  IF items = <<>> THEN <<>>
  ELSE (IF ~NumLt(Head(items).percent, Num(0)) /\ ~Head(items).percent.nan
        THEN <<Head(items)>> ELSE <<>>)
       \o FilterNotNegative(Tail(items))

\* .filter(item => item.percent > 0)
RECURSIVE FilterPositive(_)
FilterPositive(items) ==
  IF items = <<>> THEN <<>>
  ELSE (IF NumGt(Head(items).percent, Num(0)) THEN <<Head(items)>> ELSE <<>>)
       \o FilterPositive(Tail(items))

RECURSIVE InsertByPercent(_, _)

\* The insertion of a sort that puts a later element before its equals.
InsertBeforeEquals(sorted, item) ==
  IF sorted = <<>> THEN <<item>>
  ELSE IF ~NumLt(item.percent, Head(sorted).percent) THEN <<item>> \o sorted
  ELSE <<Head(sorted)>> \o InsertByPercent(Tail(sorted), item)

\* One insertion of the stable sort: item goes after every element that the
\* comparator (a, b) => b.percent - a.percent does not put behind it, that
\* is, after every element with a percent greater than or equal to its own.
InsertByPercent(sorted, item) ==
  IF sorted = <<>> THEN <<item>>
  ELSE IF NumGt(item.percent, Head(sorted).percent) THEN <<item>> \o sorted
  ELSE <<Head(sorted)>> \o InsertByPercent(Tail(sorted), item)

\* .sort((a, b) => b.percent - a.percent): Array.prototype.sort is stable.
RECURSIVE SortByPercentDesc(_)
SortByPercentDesc(items) ==
  IF items = <<>> THEN <<>>
  ELSE InsertByPercent(SortByPercentDesc(SubSeq(items, 1, Len(items) - 1)),
                       items[Len(items)])

\* budgetObj without the entries whose amount is 0.
RECURSIVE DropZeroAmounts(_)
DropZeroAmounts(budgetObj) ==
  IF budgetObj = <<>> THEN <<>>
  ELSE (IF NumEq(parseRM(Head(budgetObj).val), Num(0)) THEN <<>>
        ELSE <<Head(budgetObj)>>)
       \o DropZeroAmounts(Tail(budgetObj))

\* An evaluation that filters the budget object itself.
BreakdownPruning(budgetObj) ==
  LET total == SumAmounts(budgetObj)
  IN [items |->
        IF NumEq(total, Num(0)) THEN <<>>
        ELSE SortByPercentDesc(FilterPositive(
               [i \in 1..Len(budgetObj) |-> CategoryItem(budgetObj[i], total)])),
      budgetObj |-> DropZeroAmounts(budgetObj)]

\* The chain Object.entries(budgetObj).map(...).filter(...).sort(...) with the
\* total === 0 early return.  Every step builds a new array: budgetObj is the
\* object it was before the evaluation.
BreakdownOf(budgetObj) ==
  LET total == SumAmounts(budgetObj)
  IN [items |->
        IF NumEq(total, Num(0)) THEN <<>>
        ELSE SortByPercentDesc(FilterPositive(
               [i \in 1..Len(budgetObj) |-> CategoryItem(budgetObj[i], total)])),
      budgetObj |-> budgetObj]

(***************************************************************************)
(* State                                                                   *)
(***************************************************************************)

VARIABLES
  projects,              \* projectStore.projects: sequence of Project records
  selectedProjectTitle,  \* ref selectedProjectTitle
  selectedProjectLocal,  \* ref selectedProjectLocal (v-model of the select)
  editingCategory,       \* ref editingCategory: <<>> is null, else <<item>>
  editAmount,            \* ref editAmount (v-model of the amount input)
  shown,                 \* the value of the computed breakdown last rendered
  edits,                 \* number of saveBudgetEdit calls that wrote a value
  modelOutput,           \* per project: <<>> or <<the model's budget object>>
  messages,              \* chat panel: ref messages
  isLoading,             \* chat panel: ref isLoading
  currentMessage,        \* chat panel: ref currentMessage
  requests,              \* backend requests of the chat panel in flight
  showAI,                \* budget view: ref showAI (the chat panel is mounted)
  rawResponse,           \* Normalizer: <<>> or <<the parsed model response>>
  normalizedBreakdown,   \* Normalizer: <<>> or <<the ScriptBreakdown produced>>
  statusCalls,           \* projects view: changeProjectStatus calls in flight
  notifications,         \* projects view: what the calls have reported
  menuOpen,              \* projects view: a project-card menu is open
  accessToken,           \* auth store: ref accessToken, <<>> is null
  user,                  \* auth store: ref user, <<>> is null, else <<object>>
  localStorage,          \* window.localStorage: key -> <<>> (absent) or <<value>>
  authCalls,             \* auth store: the actions called so far
  urlParams,             \* OAuth callback: the parameters of the URL
  loading,               \* OAuth callback: ref loading
  error,                 \* OAuth callback: ref error, <<>> is ''
  redirect,              \* OAuth callback: the timer of the redirect
  route,                 \* the route the router shows
  handled                \* OAuth callback: the onMounted hook has run

budgetVars ==
  <<projects, selectedProjectTitle, selectedProjectLocal, editingCategory,
    editAmount, shown, edits>>

chatVars == <<messages, isLoading, currentMessage, requests, showAI>>

normalizerVars == <<rawResponse, normalizedBreakdown>>

statusVars == <<statusCalls, notifications, menuOpen>>

authVars == <<accessToken, user, localStorage, authCalls>>

callbackVars == <<urlParams, loading, error, redirect, route, handled>>

loginVars == <<authVars, callbackVars>>

otherVars == <<modelOutput, normalizerVars, statusVars, loginVars>>

vars == <<budgetVars, chatVars, otherVars>>

(***************************************************************************)
(* Budget objects                                                          *)
(***************************************************************************)

Entry(k, v) == [key |-> k, val |-> v]

KeysOf(budgetObj) == [i \in 1..Len(budgetObj) |-> budgetObj[i].key]

HasKey(budgetObj, k) == \E i \in 1..Len(budgetObj) : budgetObj[i].key = k

\* budgetObj[k] = v: an existing key keeps its place, a new key is appended.
SetKey(budgetObj, k, v) ==
  IF HasKey(budgetObj, k)
  THEN [i \in 1..Len(budgetObj) |->
          IF budgetObj[i].key = k THEN Entry(k, v) ELSE budgetObj[i]]
  ELSE Append(budgetObj, Entry(k, v))

\* budgetObj[k] for a key that is present.
GetKey(budgetObj, k) ==
  budgetObj[CHOOSE i \in 1..Len(budgetObj) : budgetObj[i].key = k].val

\* projects.value.find(p => p.title === title): its index, 0 for undefined.
FindProject(projs, title) ==
  IF \E i \in 1..Len(projs) : projs[i].title = title
  THEN CHOOSE i \in 1..Len(projs) :
         /\ projs[i].title = title
         /\ \A j \in 1..(i - 1) : projs[j].title # title
  ELSE 0

\* The computed breakdown for the selected project: [] when the project or
\* its scriptBreakdown.budget is missing.  projects is returned as the
\* evaluation leaves it.
breakdown(projs, title) ==
  LET i == FindProject(projs, title)
  IN IF i = 0 \/ projs[i].scriptBreakdown = <<>>
     THEN [items |-> <<>>, projects |-> projs]
     ELSE LET r == BreakdownOf(projs[i].scriptBreakdown[1])
          IN [items    |-> r.items,
              projects |-> [projs EXCEPT ![i].scriptBreakdown = <<r.budgetObj>>]]

\* Object.keys(budget).find(key => formatCategoryName(key) === name): the
\* index of the first such entry, 0 for undefined.
FindCategoryKey(budgetObj, name) ==
  IF \E i \in 1..Len(budgetObj) : formatCategoryName(budgetObj[i].key) = name
  THEN CHOOSE i \in 1..Len(budgetObj) :
         /\ formatCategoryName(budgetObj[i].key) = name
         /\ \A j \in 1..(i - 1) : formatCategoryName(budgetObj[j].key) # name
  ELSE 0

(***************************************************************************)
(* Inputs                                                                  *)
(***************************************************************************)

\* Longest budget object of the enumerated family.
MaxKeys == 2

\* saveBudgetEdit calls that write a value, per behaviour.
MaxEdits == 2

V_RM0 == RM(<<"0">>)

V_RM100 == RM(<<"1", "0", "0">>)

V_TBD == <<"T", "B", "D">>

V_TwoDots == RM(<<"1", ".", "2", ".", "3">>)

V_Grouped == RM(<<"2", ",", "5", "0", "0", ".", "5">>)

V_Large == RM(<<"2", "5", "0", "0", ".", "5">>)

\* A key outside the fixed seven.
K_equipmentRental ==
  <<"e", "q", "u", "i", "p", "m", "e", "n", "t", "R", "e", "n", "t", "a", "l">>

GenKeys == {K_talent, K_crew, K_equipmentRental}

GenVals == {V_RM0, V_RM100, V_TBD, V_TwoDots, V_Grouped}

\* Every budget object of at most MaxKeys entries over GenKeys and GenVals,
\* in every key order.
GenBudgets ==
  UNION {
    { b \in [1..n -> [key : GenKeys, val : GenVals]] :
        \A i, j \in 1..n : i # j => b[i].key # b[j].key }
    : n \in 0..MaxKeys }

\* The budget of the presentation script and of the spec's rounding example.
ExampleBudget ==
  << Entry(K_talent, RM(<<"4", "0", "0">>)),
     Entry(K_crew, RM(<<"9", "0", "0">>)),
     Entry(K_propsSet, RM(<<"5", "3", "0">>)),
     Entry(K_location, RM(<<"3", "0", "0">>)) >>

\* A budget object with all seven categories.
FullBudget ==
  << Entry(K_talent, RM(<<"1", "5", "0", "0">>)),
     Entry(K_location, RM(<<"7", "5", "0">>)),
     Entry(K_propsSet, V_RM0),
     Entry(K_wardrobeMakeup, RM(<<"2", "5", "0">>)),
     Entry(K_sfxVfx, RM(<<"7", "5", "0">>)),
     Entry(K_crew, RM(<<"1", "7", "5", "0">>)),
     Entry(K_miscellaneous, RM(<<"1">>)) >>

\* Entries that are not in the order of CategoryKeys, one of them under a key
\* outside the fixed seven and one that is no amount.
MixedBudget ==
  << Entry(K_miscellaneous, V_RM100),
     Entry(K_crew, V_RM100),
     Entry(K_equipmentRental, V_Large),
     Entry(K_talent, V_TBD) >>

SmallBudget == << Entry(K_talent, V_RM100) >>

\* The budget objects the breakdown is computed for.
InputBudgets == GenBudgets \cup {ExampleBudget, FullBudget, MixedBudget}

\* The budget objects the edits start from (<<>> is a project without one).
EditBudgets == {<<>>, <<ExampleBudget>>, <<MixedBudget>>}

\* What editAmount can hold: empty, a decimal numeral (the browser accepts a
\* minus sign whatever min is), or a text that is not a number.
AmountInputs ==
  { <<>>, <<"1", "0", "0", "0">>, <<"0", ".", "1", "2", "3", "4">>,
    <<"-", "5">>, <<"a", "b", "c">> }

Titles == {"A", "B"}

Project(t, sb, ad) ==
  [title |-> t, status |-> "ACTIVE", scriptBreakdown |-> sb, analysis_data |-> ad]

(***************************************************************************)
(* Auth store (src/unnamed/part_002): values                               *)
(*                                                                         *)
(* An object is a sequence of entries as above; a property value is <<>>   *)
(* for undefined and <<text>> for a string.  A text that JSON is read from *)
(* or written to is a record: kind "json" with the value it spells (<<>>   *)
(* for null, <<object>> for an object), "malformed" for a text that is not *)
(* JSON, "empty" for ''.                                                   *)
(***************************************************************************)

\* obj[k]: <<>> (undefined) for a key that is missing.
Property(obj, k) == IF HasKey(obj, k) THEN GetKey(obj, k) ELSE <<>>

\* { ...a, ...b }: the properties of b are assigned over those of a.
RECURSIVE Spread(_, _)
Spread(a, b) ==
  IF b = <<>> THEN a ELSE Spread(SetKey(a, Head(b).key, Head(b).val), Tail(b))

\* The entries JSON.stringify writes: a property whose value is undefined is
\* left out.
RECURSIVE DefinedEntries(_)
DefinedEntries(obj) ==
  IF obj = <<>> THEN <<>>
  ELSE (IF Head(obj).val = <<>> THEN <<>> ELSE <<Head(obj)>>)
       \o DefinedEntries(Tail(obj))

\* JSON.stringify(value) for null (<<>>) or an object (<<obj>>).
JSONStringify(value) ==
  [kind  |-> "json",
   value |-> IF value = <<>> THEN <<>> ELSE <<DefinedEntries(value[1])>>]

\* JSON.parse(text): the value, or a SyntaxError.
JSONParse(text) ==
  IF text.kind = "json" THEN [threw |-> FALSE, value |-> text.value]
  ELSE [threw |-> TRUE, value |-> <<>>]

\* Some property of the object spelled by text holds a "%".
HasPercent(text) ==
  /\ text.kind = "json"
  /\ text.value # <<>>
  /\ \E i \in 1..Len(text.value[1]) :
       LET val == text.value[1][i].val
       IN val # <<>> /\ CountChar(val[1], "%") > 0

\* decodeURIComponent(text): a URIError for a "%" that starts no escape (the
\* texts drawn have it at the end of a value), else the text itself.
decodeURIComponent(text) ==
  IF HasPercent(text) THEN [threw |-> TRUE, text |-> text]
  ELSE [threw |-> FALSE, text |-> text]

StorageKeys == {"access_token", "user", "isLoggedIn"}

EmptyStorage == [k \in StorageKeys |-> <<>>]

\* localStorage.getItem(k): <<>> is null.
getItem(storage, k) == storage[k]

setItem(storage, k, v) == [storage EXCEPT ![k] = <<v>>]

removeItem(storage, k) == [storage EXCEPT ![k] = <<>>]

\* The refs of a store set up over storage (defineStore's setup function).
useAuthStore(storage) ==
  [accessToken |-> getItem(storage, "access_token"),
   user        |-> IF getItem(storage, "user") # <<>>
                   THEN JSONParse(getItem(storage, "user")[1]).value
                   ELSE <<>>]

\* localStorage after the three setItem calls of setAuth.
StorageAfterSetAuth(storage, token, userData) ==
  setItem(setItem(setItem(storage, "access_token", token),
                  "user", JSONStringify(userData)),
          "isLoggedIn", "true")

\* Access tokens: setAuth is called with a token that is not empty (its
\* caller in the OAuth callback tests it).
Tokens == {<<"t", "1">>, <<"t", "2">>}

UserAnn ==
  << Entry("id", <<<<"u", "1">>>>), Entry("full_name", <<<<"A", "n", "n">>>>) >>

UserBob == << Entry("id", <<<<"u", "2">>>>) >>

\* A user whose name ends in a percent sign.
UserPercent ==
  << Entry("id", <<<<"u", "3">>>>), Entry("full_name", <<<<"1", "0", "0", "%">>>>) >>

\* What setAuth is given as userData: an object, or null (the OAuth callback
\* passes whatever JSON.parse returned).
UserInputs == {<<>>, <<UserAnn>>, <<UserBob>>}

\* What updateUser is given: some properties of a user, one of them set to
\* undefined.
UserUpdates ==
  { << Entry("full_name", <<<<"B", "o", "b">>>>) >>,
    << Entry("full_name", <<>>) >>,
    << Entry("email", <<<<"a", "@", "b">>>>) >> }

\* localStorage as an earlier visit left it: nothing, or a login.
Storages ==
  {EmptyStorage, StorageAfterSetAuth(EmptyStorage, <<"t", "1">>, <<UserAnn>>)}

\* The store and the storage it was set up over.
InitAuthStore(storages) ==
  /\ localStorage \in storages
  /\ accessToken = useAuthStore(localStorage).accessToken
  /\ user = useAuthStore(localStorage).user
  /\ authCalls = <<>>

(***************************************************************************)
(* OAuth callback view (src/unnamed/part_001): the URL and the setup       *)
(*                                                                         *)
(* URLSearchParams.get gives null (<<>>) for a parameter the URL does not  *)
(* carry and <<value>> otherwise.                                          *)
(***************************************************************************)

EmptyText == [kind |-> "empty", value |-> <<>>]

MalformedText == [kind |-> "malformed", value |-> <<>>]

\* access_token: not in the URL, empty, or a token.
TokenParams == {<<>>, <<<<>>>>, <<<<"t", "2">>>>}

\* user: not in the URL, empty, not JSON, the JSON of a user, the JSON null,
\* or the JSON of a user with a percent sign in the name.
UserParams ==
  { <<>>, <<EmptyText>>, <<MalformedText>>, <<JSONStringify(<<UserBob>>)>>,
    <<JSONStringify(<<>>)>>, <<JSONStringify(<<UserPercent>>)>> }

CodeParams == {<<>>, <<"4/0AX4XfWh">>}

ErrorParams == {<<>>, <<"access_denied">>}

Urls ==
  [access_token : TokenParams, user : UserParams, code : CodeParams,
   error : ErrorParams]

NoParams == [access_token |-> <<>>, user |-> <<>>, code |-> <<>>, error |-> <<>>]

\* The callback view right after setup, at the URL it was opened with.
InitCallback(urls) ==
  /\ urlParams \in urls
  /\ loading = TRUE
  /\ error = <<>>
  /\ redirect = "none"
  /\ route = "OAuthCallback"
  /\ handled = FALSE

\* The router shows another view: the callback view does not exist.
NoCallback ==
  /\ urlParams = NoParams
  /\ loading = TRUE
  /\ error = <<>>
  /\ redirect = "none"
  /\ route = "BudgetView"
  /\ handled = FALSE

(***************************************************************************)
(* Budget view: construction and handlers                                  *)
(***************************************************************************)

\* The view right after setup and the first render.  A's budget object is
\* also what analysis_data.script_breakdown.budget holds; B has no
\* analysis_data.
InitBudget(budgetsA, budgetsB) ==
  /\ \E b \in budgetsA, c \in budgetsB :
       projects = <<Project("A", b, b), Project("B", c, <<>>)>>
  /\ selectedProjectTitle \in Titles
  /\ selectedProjectLocal = selectedProjectTitle
  /\ editingCategory = <<>>
  /\ editAmount = <<>>
  /\ shown = breakdown(projects, selectedProjectTitle).items
  /\ edits = 0
  /\ modelOutput = [p \in 1..Len(projects) |-> <<>>]
  /\ rawResponse = <<>>
  /\ normalizedBreakdown = <<>>
  /\ statusCalls = <<>>
  /\ notifications = <<>>
  /\ menuOpen = FALSE

\* The chat panel: not mounted (showAI false), or mounted and idle with the
\* messages of one of the given conversations.
InitPanel(conversations, panelMounted) ==
  /\ showAI = panelMounted
  /\ messages \in conversations
  /\ isLoading = FALSE
  /\ currentMessage = <<>>
  /\ requests = <<>>

InitBudgetView(budgetsA, budgetsB) ==
  /\ InitBudget(budgetsA, budgetsB)
  /\ InitPanel({<<>>}, FALSE)
  /\ InitAuthStore({EmptyStorage})
  /\ NoCallback

\* <select v-model="selectedProjectLocal">
SelectProjectLocal(t) ==
  /\ selectedProjectLocal' = t
  /\ UNCHANGED <<projects, selectedProjectTitle, editingCategory, editAmount,
                 shown, edits>>
  /\ UNCHANGED <<chatVars, otherVars>>

confirmProjectChange ==
  /\ selectedProjectLocal # selectedProjectTitle
  /\ selectedProjectTitle' = selectedProjectLocal
  /\ LET r == breakdown(projects, selectedProjectLocal)
     IN /\ projects' = r.projects
        /\ shown' = r.items
  /\ UNCHANGED <<selectedProjectLocal, editingCategory, editAmount, edits>>
  /\ UNCHANGED <<chatVars, otherVars>>

\* watch(() => projectStore.selectedProjectTitle, ...): the store's selection
\* was set to newTitle elsewhere; both refs follow it and the breakdown is
\* computed for the project now selected.  The modal's refs are not touched.
selectedProjectTitleWatcher(newTitle) ==
  /\ selectedProjectTitle' = newTitle
  /\ selectedProjectLocal' = newTitle
  /\ LET r == breakdown(projects, newTitle)
     IN /\ projects' = r.projects
        /\ shown' = r.items
  /\ UNCHANGED <<editingCategory, editAmount, edits>>
  /\ UNCHANGED <<chatVars, otherVars>>

\* The categories that get an edit button: the template skips two names.
HiddenNames == {nameMap[K_sfxVfx], nameMap[K_miscellaneous]}

editBudgetCategory(category) ==
  /\ editingCategory' = <<category>>
  /\ editAmount' = NumberToString(parseRM(category.amount))
  /\ UNCHANGED <<projects, selectedProjectTitle, selectedProjectLocal, shown,
                 edits>>
  /\ UNCHANGED <<chatVars, otherVars>>

\* <input v-model="editAmount" type="number">, inside the modal.
SetEditAmount(text) ==
  /\ editingCategory # <<>>
  /\ editAmount' = text
  /\ UNCHANGED <<projects, selectedProjectTitle, selectedProjectLocal,
                 editingCategory, shown, edits>>
  /\ UNCHANGED <<chatVars, otherVars>>

\* `RM ${newAmount}`, the string saveBudgetEdit stores.
StoredText(newAmount) == RM(NumberToString(newAmount))

\* A write that replaces the budget object by one holding the written key.
WriteBudgetReplacing(project, categoryKey, text) ==
  [project EXCEPT
     !.scriptBreakdown = <<<<Entry(categoryKey, text)>>>>,
     !.analysis_data =
        IF project.analysis_data # <<>>
        THEN <<<<Entry(categoryKey, text)>>>>
        ELSE <<>>]

\* A write that updates scriptBreakdown.budget only.
WriteBudgetForgettingAnalysis(project, categoryKey, text) ==
  [project EXCEPT
     !.scriptBreakdown = <<SetKey(project.scriptBreakdown[1], categoryKey, text)>>]

\* The project after the two assignments of saveBudgetEdit.
WriteBudget(project, categoryKey, text) ==
  [project EXCEPT
     !.scriptBreakdown = <<SetKey(project.scriptBreakdown[1], categoryKey, text)>>,
     !.analysis_data =
        IF project.analysis_data # <<>>
        THEN <<SetKey(project.analysis_data[1], categoryKey, text)>>
        ELSE <<>>]

\* The part of saveBudgetEdit after the amount test: the key is looked up in
\* the selected project, the text is stored and the modal closes.
saveBudgetEditStores(i, newAmount) ==
  LET project == projects[i]
      k == IF project.scriptBreakdown = <<>> THEN 0
           ELSE FindCategoryKey(project.scriptBreakdown[1],
                                editingCategory[1].name)
      written ==
        IF k = 0 THEN projects
        ELSE [projects EXCEPT ![i] =
                WriteBudget(project, project.scriptBreakdown[1][k].key,
                            StoredText(newAmount))]
      r == breakdown(written, selectedProjectTitle)
  IN /\ k # 0 => edits < MaxEdits
     /\ projects' = r.projects
     /\ shown' = r.items
     /\ edits' = IF k = 0 THEN edits ELSE edits + 1
     /\ editingCategory' = <<>>
     /\ editAmount' = <<>>
     /\ UNCHANGED <<selectedProjectTitle, selectedProjectLocal>>
     /\ UNCHANGED <<chatVars, otherVars>>

\* A save whose amount test only looks for NaN.
saveBudgetEditAcceptingNegative ==
  LET i         == FindProject(projects, selectedProjectTitle)
      newAmount == ToNumber(editAmount)
  IN IF editingCategory = <<>> \/ i = 0
     THEN UNCHANGED vars
     ELSE IF newAmount.nan
     THEN UNCHANGED vars
     ELSE saveBudgetEditStores(i, newAmount)

saveBudgetEdit ==
  LET i         == FindProject(projects, selectedProjectTitle)
      newAmount == ToNumber(editAmount)
  IN IF editingCategory = <<>> \/ i = 0
     THEN UNCHANGED vars
     ELSE IF newAmount.nan \/ NumLt(newAmount, Num(0))
     THEN UNCHANGED vars
     ELSE saveBudgetEditStores(i, newAmount)

cancelBudgetEdit ==
  /\ editingCategory # <<>>
  /\ editingCategory' = <<>>
  /\ editAmount' = <<>>
  /\ UNCHANGED <<projects, selectedProjectTitle, selectedProjectLocal, shown,
                 edits>>
  /\ UNCHANGED <<chatVars, otherVars>>

EditClick ==
  \E n \in 1..Len(shown) :
    /\ shown[n].name \notin HiddenNames
    /\ editBudgetCategory(shown[n])

SelectChange == \E t \in Titles : SelectProjectLocal(t)

AmountInput == \E text \in AmountInputs : SetEditAmount(text)

StoreSelectionChanges ==
  \E t \in Titles : t # selectedProjectTitle /\ selectedProjectTitleWatcher(t)

SaveClick == editingCategory # <<>> /\ saveBudgetEdit

(***************************************************************************)
(* Breakdown Normalizer, budget step (section 4.3, step 5 of the           *)
(* specification; the backend code is not among the sources).  A value of  *)
(* the model's output is a string or a number.                             *)
(***************************************************************************)

RawString(text) == [isNum |-> FALSE, text |-> text, num |-> Num(0)]

RawNumber(v) == [isNum |-> TRUE, text |-> <<>>, num |-> Num(v)]

\* A string value is kept, a numeric value is rendered as "RM {amount}".
EnsureString(raw) ==
  IF raw.isNum THEN RM(NumberToString(raw.num)) ELSE raw.text

\* The amount of a raw value, an unparsable string counting as 0.
RawAmount(raw) ==
  IF raw.isNum THEN raw.num.v
  ELSE IF parseRM(raw.text).nan THEN 0 ELSE parseRM(raw.text).v

\* The sum of the amounts under keys outside the fixed set.
RECURSIVE ExtraAmount(_)
ExtraAmount(rawBudget) ==
  IF rawBudget = <<>> THEN 0
  ELSE (IF Head(rawBudget).key \in CategoryKeySet THEN 0
        ELSE RawAmount(Head(rawBudget).val))
       + ExtraAmount(Tail(rawBudget))

HasExtraKeys(rawBudget) ==
  \E i \in 1..Len(rawBudget) : rawBudget[i].key \notin CategoryKeySet

\* Every fixed key gets a string value: its own, "RM 0" when it is absent;
\* the keys outside the fixed set are summed into miscellaneous.
NormalizeBudget(rawBudget) ==
  [i \in 1..Len(CategoryKeys) |->
     LET k    == CategoryKeys[i]
         own  == IF HasKey(rawBudget, k)
                 THEN EnsureString(GetKey(rawBudget, k)) ELSE V_RM0
         ownAmount == IF HasKey(rawBudget, k)
                      THEN RawAmount(GetKey(rawBudget, k)) ELSE 0
     IN Entry(k, IF k = K_miscellaneous /\ HasExtraKeys(rawBudget)
                 THEN RM(NumberToString(Num(ownAmount + ExtraAmount(rawBudget))))
                 ELSE own)]

\* Budget objects a model response can carry.
RawBudgets ==
  { <<>>,
    << Entry(K_crew, RawNumber(900 * Scale)),
       Entry(K_talent, RawString(RM(<<"4", "0", "0">>))) >>,
    << Entry(K_equipmentRental, RawString(RM(<<"5", "0">>))),
       Entry(K_miscellaneous, RawString(V_RM100)),
       Entry(K_location, RawString(V_TBD)) >> }

\* The external model answers for a project that has no ScriptBreakdown yet.
ModelResponds(p, rawBudget) ==
  /\ projects[p].scriptBreakdown = <<>>
  /\ modelOutput[p] = <<>>
  /\ modelOutput' = [modelOutput EXCEPT ![p] = <<rawBudget>>]
  /\ UNCHANGED <<budgetVars, chatVars, loginVars, normalizerVars, statusVars>>

\* The normalized breakdown is attached to the project (and rendered when
\* the project is the selected one).
AttachAnalysis(p) ==
  /\ modelOutput[p] # <<>>
  /\ LET normalized == NormalizeBudget(modelOutput[p][1])
         attached   == [projects EXCEPT ![p].scriptBreakdown = <<normalized>>,
                                        ![p].analysis_data = <<normalized>>]
         r          == breakdown(attached, selectedProjectTitle)
     IN /\ projects' = r.projects
        /\ shown' = r.items
  /\ modelOutput' = [modelOutput EXCEPT ![p] = <<>>]
  /\ UNCHANGED <<selectedProjectTitle, selectedProjectLocal, editingCategory,
                 editAmount, edits, chatVars, loginVars, normalizerVars, statusVars>>

ModelResponse ==
  \E p \in 1..Len(projects), rawBudget \in RawBudgets : ModelResponds(p, rawBudget)

Attach == \E p \in 1..Len(projects) : AttachAnalysis(p)

(***************************************************************************)
(* Breakdown Normalizer, whole response (section 4.3, steps 3 to 5).  A    *)
(* value that may be absent is <<>> or <<value>>; a value expected to be a *)
(* sequence is [isSeq, items], the items being lost when it is none.       *)
(***************************************************************************)

\* Scenes a response carries at most.
MaxScenes == 2

Absent == <<>>

Present(v) == <<v>>

RawList(isSeq, items) == [isSeq |-> isSeq, items |-> items]

\* A scene entry of the model's output: every field may be absent.
RawScene(number, heading, location, time, characters, props, wardrobe, sfx, notes, budget) ==
  [number |-> number, heading |-> heading, location |-> location, time |-> time,
   characters |-> characters, props |-> props, wardrobe |-> wardrobe,
   sfx |-> sfx, notes |-> notes, budget |-> budget]

\* Step 4: number becomes an integer, the sequential index of the scene when
\* it is missing or not numeric.
CoerceNumber(raw, index) ==
  IF raw = Absent THEN index
  ELSE IF raw[1].isNum THEN raw[1].num.v \div Scale
  ELSE index

\* Step 4: a sequence field stays when it is a sequence, else is empty.
DefaultSequence(raw) ==
  IF raw # Absent /\ raw[1].isSeq THEN Present(raw[1].items) ELSE Present(<<>>)

\* Step 4: notes and budget become the empty string when absent.
DefaultString(raw) ==
  IF raw = Absent THEN Present(<<>>) ELSE raw

\* Step 4 for one scene entry; heading, location and time are not among the
\* fields it defaults.
NormalizeScene(raw, index) ==
  [number     |-> Present(CoerceNumber(raw.number, index)),
   heading    |-> raw.heading,
   location   |-> raw.location,
   time       |-> raw.time,
   characters |-> DefaultSequence(raw.characters),
   props      |-> DefaultSequence(raw.props),
   wardrobe   |-> DefaultSequence(raw.wardrobe),
   sfx        |-> DefaultSequence(raw.sfx),
   notes      |-> DefaultString(raw.notes),
   budget     |-> DefaultString(raw.budget)]

\* Step 3: an absent top-level key is an empty collection or mapping.
OrEmpty(raw) == IF raw = Absent THEN <<>> ELSE raw[1]

\* Steps 3 to 5: the ScriptBreakdown of a parsed response.
NormalizeResponse(raw) ==
  [scenes     |-> [i \in 1..Len(OrEmpty(raw.scenes)) |->
                     NormalizeScene(OrEmpty(raw.scenes)[i], i)],
   characters |-> OrEmpty(raw.characters),
   locations  |-> OrEmpty(raw.locations),
   props      |-> OrEmpty(raw.props),
   budget     |-> NormalizeBudget(OrEmpty(raw.budget))]

\* Values the model gives for a scene's number: none, a number, a text.
RawNumbers ==
  { Absent, Present(RawNumber(1 * Scale)), Present(RawNumber(2 * Scale)),
    Present(RawString(<<"x">>)) }

SomeText == Present(<<"I", "N", "T">>)

SomeList == Present(RawList(TRUE, << <<"A", "n", "n">> >>))

NoList == Present(RawList(FALSE, <<>>))

\* Scene entries: with every field, with the number only, and with some
\* fields absent and a sequence field that is no sequence.
RawScenes ==
  { RawScene(n, SomeText, SomeText, SomeText, SomeList, SomeList, SomeList,
             SomeList, SomeText, SomeText) : n \in RawNumbers }
  \cup
  { RawScene(n, Absent, Absent, Absent, Absent, Absent, Absent, Absent,
             Absent, Absent) : n \in RawNumbers }
  \cup
  { RawScene(n, SomeText, SomeText, SomeText, NoList, Absent, SomeList, NoList,
             Absent, SomeText) : n \in RawNumbers }

RawSceneLists == UNION { [1..n -> RawScenes] : n \in 0..MaxScenes }

Names == Present(<< <<"A", "n", "n">> >>)

RawTopLevel(scenes, characters, locations, props, budget) ==
  [scenes |-> scenes, characters |-> characters, locations |-> locations,
   props |-> props, budget |-> budget]

\* Parsed responses: any subset of scenes and budget, with none, one or all
\* of the aggregate lists.
RawResponses ==
  { RawTopLevel(sc, l[1], l[2], l[3], b) :
      sc \in {Absent} \cup { Present(q) : q \in RawSceneLists },
      l \in { <<Absent, Absent, Absent>>, <<Names, Absent, Absent>>,
              <<Names, Names, Names>> },
      b \in {Absent} \cup { Present(rb) : rb \in RawBudgets } }

\* The model's response has been parsed to an object (step 2).
ResponseParsed(raw) ==
  /\ rawResponse = <<>>
  /\ rawResponse' = <<raw>>
  /\ UNCHANGED <<normalizedBreakdown, budgetVars, chatVars, loginVars, modelOutput,
                 statusVars>>

\* The Normalizer returns the ScriptBreakdown of the response.
Normalize ==
  /\ rawResponse # <<>>
  /\ normalizedBreakdown = <<>>
  /\ normalizedBreakdown' = <<NormalizeResponse(rawResponse[1])>>
  /\ UNCHANGED <<rawResponse, budgetVars, chatVars, loginVars, modelOutput, statusVars>>

Parsed == \E raw \in RawResponses : ResponseParsed(raw)

(***************************************************************************)
(* AI chat panel                                                           *)
(*                                                                         *)
(* A message is [type, content]; content is [kind, text]: what the user    *)
(* typed ("typed"), the upload notice with the file name ("uploaded"), the *)
(* backend's reply ("response"), the summary of an analysed script         *)
(* ("analysis") or one of the fixed texts of the component.  A request in  *)
(* flight is a pending promise; the backend or the network settles it, and *)
(* the function that awaits it resumes in a later step.                    *)
(***************************************************************************)

\* Messages the panel holds at most, and characters typed at most.
MaxMessages == 4

\* messages.value.slice(-10)
HistoryLength == 10

Message(type, kind, text) ==
  [type |-> type, content |-> [kind |-> kind, text |-> text]]

\* s.trim() for strings whose only white space is the blank.
RECURSIVE TrimStart(_)
TrimStart(s) ==
  IF s # <<>> /\ Head(s) = " " THEN TrimStart(Tail(s)) ELSE s

RECURSIVE TrimEnd(_)
TrimEnd(s) ==
  IF s # <<>> /\ s[Len(s)] = " " THEN TrimEnd(SubSeq(s, 1, Len(s) - 1)) ELSE s

Trim(s) == TrimEnd(TrimStart(s))

\* array.slice(0, n): the first n elements.
SliceFirst(seq, n) ==
  IF Len(seq) <= n THEN seq ELSE SubSeq(seq, 1, n)

\* array.slice(-n): the last n elements, all of them when there are fewer.
SliceLast(seq, n) ==
  IF Len(seq) <= n THEN seq ELSE SubSeq(seq, Len(seq) - n + 1, Len(seq))

\* name.split('.').pop(): what follows the last ".", the whole name when it
\* has none.
RECURSIVE LastSegment(_)
LastSegment(name) ==
  IF CountChar(name, ".") = 0 THEN name
  ELSE LastSegment(SubSeq(name, IndexOf(name, ".") + 1, Len(name)))

\* '.' + file.name.split('.').pop()?.toLowerCase()
fileExtension(file) ==
  <<".">> \o [i \in 1..Len(LastSegment(file.name)) |->
                ToLower(LastSegment(file.name)[i])]

allowedTypes == {"application/pdf", "text/plain", "text/x-fountain"}

allowedExtensions ==
  { <<".", "p", "d", "f">>, <<".", "t", "x", "t">>,
    <<".", "f", "o", "u", "n", "t", "a", "i", "n">>, <<".", "f", "d", "x">> }

\* The test that lets uploadFile go on to the upload.
PassesValidation(file) ==
  file.type \in allowedTypes \/ fileExtension(file) \in allowedExtensions

File(name, type) == [name |-> name, type |-> type]

\* Files the user can pick or drop.
Files ==
  { File(<<"s", ".", "p", "d", "f">>, "application/pdf"),
    File(<<"s", ".", "T", "X", "T">>, "text/plain"),
    File(<<"s", ".", "f", "d", "x">>, ""),
    File(<<"s", ".", "f", "o", "u", "n", "t", "a", "i", "n">>, "text/x-fountain"),
    File(<<"s", ".", "d", "o", "c", "x">>, "application/msword"),
    File(<<"s", ".", "v", "1", ".", "p", "n", "g">>, "image/png"),
    File(<<"s">>, ""),
    File(<<"f", "d", "x">>, "") }

\* What the user can have typed into the message box.
Typed == { <<>>, <<" ">>, <<"h", "i">>, <<" ", "o", "k", " ">> }

NoFile == File(<<>>, "")

\* A pending request of the panel: the call of sendChatMessage or
\* uploadScriptFile and the state of the promise it returned.
ChatRequest(query, history) ==
  [kind |-> "chat", status |-> "pending", query |-> query, history |-> history,
   file |-> NoFile, response |-> <<>>]

UploadRequest(file) ==
  [kind |-> "upload", status |-> "pending", query |-> <<>>, history |-> <<>>,
   file |-> file, response |-> <<>>]

RemoveAt(seq, i) == SubSeq(seq, 1, i - 1) \o SubSeq(seq, i + 1, Len(seq))

\* <input v-model="currentMessage">
TypeMessage(text) ==
  /\ currentMessage' = text
  /\ UNCHANGED <<messages, isLoading, requests, showAI, budgetVars, otherVars>>

\* An exchange of a conversation: what the user sent and what came back.
Exchange(k) ==
  << Message("user", "typed", IF k % 2 = 1 THEN <<"h", "i">> ELSE <<" ", "o", "k", " ">>),
     IF k % 3 = 0 THEN Message("ai", "connectError", <<>>)
     ELSE Message("ai", "response", <<"y", "e", "s">>) >>

RECURSIVE Conversation(_)
Conversation(exchanges) ==
  IF exchanges = 0 THEN <<>>
  ELSE Conversation(exchanges - 1) \o Exchange(exchanges)

\* Conversations a panel holds when the model takes it up: up to and beyond
\* the length of the history.
Conversations == { Conversation(n) : n \in 3..6 }

\* sendMessage past its guard, up to its await: the user message, the
\* input cleared, isLoading set and the call of sendChatMessage.  The model
\* follows a panel up to MaxMessages messages, or for one exchange more
\* when it took the panel up with a conversation.
sendMessageIssues ==
  LET pushed == Append(messages, Message("user", "typed", currentMessage))
  IN /\ Len(messages) + 2 <= MaxMessages \/ messages \in Conversations
     /\ messages' = pushed
     /\ currentMessage' = <<>>
     /\ isLoading' = TRUE
     /\ requests' = Append(requests,
                           ChatRequest(currentMessage,
                                       SliceLast(pushed, HistoryLength)))
     /\ UNCHANGED <<showAI, budgetVars, otherVars>>

\* sendMessage with a guard that does not test isLoading.
sendMessageWhileLoading ==
  IF Trim(currentMessage) = <<>> THEN UNCHANGED vars ELSE sendMessageIssues

\* sendMessage with a guard that tests the input without trimming it.
sendMessageUntrimmed ==
  IF currentMessage = <<>> \/ isLoading THEN UNCHANGED vars ELSE sendMessageIssues

\* sendMessage up to its await.
sendMessage ==
  IF Trim(currentMessage) = <<>> \/ isLoading
  THEN UNCHANGED vars
  ELSE sendMessageIssues

\* The backend answers (with a reply text or with none), or the call fails.
Replies == { <<>>, <<"y", "e", "s">> }

RequestSettles(i, status, response) ==
  /\ requests[i].status = "pending"
  /\ requests' = [requests EXCEPT ![i].status = status, ![i].response = response]
  /\ UNCHANGED <<messages, isLoading, currentMessage, showAI, budgetVars, otherVars>>

\* sendMessage from its await on, calling the backend again when the call
\* has failed.
sendMessageResumeRetrying(i) ==
  /\ requests[i].kind = "chat"
  /\ requests[i].status # "pending"
  /\ IF requests[i].status = "rejected"
     THEN /\ requests' = [requests EXCEPT ![i].status = "pending"]
          /\ UNCHANGED <<messages, isLoading>>
     ELSE /\ messages' =
               Append(messages,
                      IF requests[i].response # <<>>
                      THEN Message("ai", "response", requests[i].response)
                      ELSE Message("ai", "processingError", <<>>))
          /\ isLoading' = FALSE
          /\ requests' = RemoveAt(requests, i)
  /\ UNCHANGED <<currentMessage, showAI, budgetVars, otherVars>>

\* The try block after the await, its catch and its finally, without the
\* finally: isLoading stays as it is.
sendMessageResumeNoFinally(i) ==
  /\ requests[i].kind = "chat"
  /\ requests[i].status # "pending"
  /\ messages' =
       Append(messages,
              IF requests[i].status = "resolved"
              THEN IF requests[i].response # <<>>
                   THEN Message("ai", "response", requests[i].response)
                   ELSE Message("ai", "processingError", <<>>)
              ELSE Message("ai", "connectError", <<>>))
  /\ requests' = RemoveAt(requests, i)
  /\ UNCHANGED <<isLoading, currentMessage, showAI, budgetVars, otherVars>>

\* sendMessage from its await on: the reply (or the fixed text when the
\* response carries none) is pushed, or the connection error when the call
\* failed; finally isLoading is reset.
sendMessageResume(i) ==
  /\ requests[i].kind = "chat"
  /\ requests[i].status # "pending"
  /\ messages' =
       Append(messages,
              IF requests[i].status = "resolved"
              THEN IF requests[i].response # <<>>
                   THEN Message("ai", "response", requests[i].response)
                   ELSE Message("ai", "processingError", <<>>)
              ELSE Message("ai", "connectError", <<>>))
  /\ isLoading' = FALSE
  /\ requests' = RemoveAt(requests, i)
  /\ UNCHANGED <<currentMessage, showAI, budgetVars, otherVars>>

\* uploadFile up to its await: the validation, the user message, isLoading.
uploadFile(file) ==
  IF ~PassesValidation(file)
  THEN /\ messages' = Append(messages, Message("ai", "invalidFile", <<>>))
       /\ UNCHANGED <<isLoading, currentMessage, requests, showAI, budgetVars, otherVars>>
  ELSE /\ messages' = Append(messages, Message("user", "uploaded", file.name))
       /\ isLoading' = TRUE
       /\ requests' = Append(requests, UploadRequest(file))
       /\ UNCHANGED <<currentMessage, showAI, budgetVars, otherVars>>

\* uploadFile from its await on.
uploadFileResume(i) ==
  /\ requests[i].kind = "upload"
  /\ requests[i].status # "pending"
  /\ messages' =
       Append(messages,
              IF requests[i].status = "resolved"
              THEN Message("ai", "analysis", requests[i].file.name)
              ELSE Message("ai", "uploadError", <<>>))
  /\ isLoading' = FALSE
  /\ requests' = RemoveAt(requests, i)
  /\ UNCHANGED <<currentMessage, showAI, budgetVars, otherVars>>

\* The upload area and the file input are rendered while there is no message.
handleFileSelect(file) == messages = <<>> /\ uploadFile(file)

handleFileDrop(file) == messages = <<>> /\ uploadFile(file)

\* The "AI" button of the budget view: showAI = true mounts a new panel, whose
\* refs start from their initial values.  A panel instance shares no state
\* with another one, so the model follows one instance at a time: the next
\* one is mounted once the calls of the closed one have run to their end.
OpenAI ==
  /\ ~showAI
  /\ requests = <<>>
  /\ showAI' = TRUE
  /\ messages' = <<>>
  /\ isLoading' = FALSE
  /\ currentMessage' = <<>>
  /\ UNCHANGED <<requests, budgetVars, otherVars>>

\* The close button emits 'close' and the budget view sets showAI = false,
\* which unmounts the panel.  Nothing else is done: the refs of the instance
\* and the functions awaiting a request live on.
CloseAI ==
  /\ showAI
  /\ showAI' = FALSE
  /\ UNCHANGED <<messages, isLoading, currentMessage, requests, budgetVars,
                 otherVars>>

MessageInput == showAI /\ \E text \in Typed : TypeMessage(text)

SendClick == showAI /\ sendMessage

FileSelect == showAI /\ \E file \in Files : handleFileSelect(file)

FileDrop == showAI /\ \E file \in Files : handleFileDrop(file)

BackendReplies ==
  \E i \in 1..Len(requests), reply \in Replies :
    /\ requests[i].kind = "upload" => reply = <<>>
    /\ RequestSettles(i, "resolved", reply)

RequestFails == \E i \in 1..Len(requests) : RequestSettles(i, "rejected", <<>>)

\* The error a call of the API module fails with when its bounded wait
\* expires (sections 4.2 and 5 of the specification; the API module is not among
\* the sources).
UpstreamTimeout == <<"U", "p", "s", "t", "r", "e", "a", "m", "T", "i", "m", "e", "o", "u", "t">>

RequestTimesOut ==
  \E i \in 1..Len(requests) : RequestSettles(i, "rejected", UpstreamTimeout)

ChatResumes == \E i \in 1..Len(requests) : sendMessageResume(i)

UploadResumes == \E i \in 1..Len(requests) : uploadFileResume(i)

(***************************************************************************)
(* Project status update (projects view)                                   *)
(*                                                                         *)
(* changeProjectStatus awaits the store's updateProjectStatus and reports  *)
(* what it returned.  A call in flight is [project, option, outcome]: the  *)
(* store call is "pending" until it returns true ("success"), returns      *)
(* false ("failure") or throws ("thrown").                                 *)
(***************************************************************************)

\* changeProjectStatus calls made at most.
MaxStatusCalls == 2

\* statusOption.value of the options of the menu.
StatusOptions == {"ACTIVE", "COMPLETED", "ON_HOLD"}

StatusCall(p, option) == [project |-> p, option |-> option, outcome |-> "pending"]

\* What a call reports: the success branch shows the notification, the
\* other branches write to the console.
Report(kind, p, option) == [kind |-> kind, project |-> p, option |-> option]

\* The three-dot button of a project card.
OpenMenu ==
  /\ ~menuOpen
  /\ menuOpen' = TRUE
  /\ UNCHANGED <<statusCalls, notifications, budgetVars, chatVars, loginVars, modelOutput,
                 normalizerVars>>

\* changeProjectStatus up to its await, writing the status of the project
\* object before it calls the store.
changeProjectStatusEager(p, option) ==
  /\ Len(statusCalls) + Len(notifications) < MaxStatusCalls
  /\ statusCalls' = Append(statusCalls, StatusCall(p, option))
  /\ projects' = [projects EXCEPT ![p].status = option]
  /\ UNCHANGED <<selectedProjectTitle, selectedProjectLocal, editingCategory,
                 editAmount, shown, edits>>
  /\ UNCHANGED <<notifications, menuOpen, chatVars, loginVars, modelOutput, normalizerVars>>

\* changeProjectStatus up to its await: the call of the store.
changeProjectStatus(p, option) ==
  /\ Len(statusCalls) + Len(notifications) < MaxStatusCalls
  /\ statusCalls' = Append(statusCalls, StatusCall(p, option))
  /\ UNCHANGED <<notifications, menuOpen, budgetVars, chatVars, loginVars, modelOutput,
                 normalizerVars>>

\* projectStore.updateProjectStatus: the API call, and on success the update
\* of the reactive projects array; it returns true, returns false or throws.
updateProjectStatus(i, outcome) ==
  /\ statusCalls[i].outcome = "pending"
  /\ statusCalls' = [statusCalls EXCEPT ![i].outcome = outcome]
  /\ projects' =
       IF outcome = "success"
       THEN [projects EXCEPT ![statusCalls[i].project].status = statusCalls[i].option]
       ELSE projects
  /\ UNCHANGED <<selectedProjectTitle, selectedProjectLocal, editingCategory,
                 editAmount, shown, edits>>
  /\ UNCHANGED <<notifications, menuOpen, chatVars, loginVars, modelOutput, normalizerVars>>

\* changeProjectStatus from its await on.
changeProjectStatusResume(i) ==
  /\ statusCalls[i].outcome # "pending"
  /\ LET call == statusCalls[i]
     IN IF call.outcome = "success"
        THEN /\ notifications' =
                  Append(notifications,
                         Report("successNotification", call.project, call.option))
             /\ menuOpen' = FALSE
        ELSE /\ notifications' =
                  Append(notifications,
                         Report(IF call.outcome = "failure"
                                THEN "failedLog" ELSE "errorLog",
                                call.project, call.option))
             /\ UNCHANGED menuOpen
  /\ statusCalls' = RemoveAt(statusCalls, i)
  /\ UNCHANGED <<budgetVars, chatVars, loginVars, modelOutput, normalizerVars>>

StatusClick ==
  /\ menuOpen
  /\ \E p \in 1..Len(projects), option \in StatusOptions :
       changeProjectStatus(p, option)

StoreReturns ==
  \E i \in 1..Len(statusCalls), outcome \in {"success", "failure", "thrown"} :
    updateProjectStatus(i, outcome)

StatusResumes == \E i \in 1..Len(statusCalls) : changeProjectStatusResume(i)

(***************************************************************************)
(* Auth store (src/unnamed/part_002): getters and actions                  *)
(***************************************************************************)

\* Auth store actions called, per behaviour.
MaxAuthCalls == 3

nonLoginVars == <<budgetVars, chatVars, modelOutput, normalizerVars, statusVars>>

\* !!accessToken.value: null and '' are falsy.
isAuthenticated == accessToken # <<>> /\ accessToken[1] # <<>>

Bearer(token) == <<"B", "e", "a", "r", "e", "r", " ">> \o token

\* Headers that always carry the Authorization entry.
getAuthHeadersAlways ==
  << Entry("Authorization",
           Bearer(IF accessToken = <<>> THEN <<"n", "u", "l", "l">>
                  ELSE accessToken[1])),
     Entry("Content-Type", "application/json") >>

getAuthHeaders ==
  IF isAuthenticated
  THEN << Entry("Authorization", Bearer(accessToken[1])),
          Entry("Content-Type", "application/json") >>
  ELSE << Entry("Content-Type", "application/json") >>

AuthCall(action, token) == [action |-> action, token |-> token]

\* The assignments of setAuth.
setAuth(token, userData) ==
  /\ accessToken' = <<token>>
  /\ user' = userData
  /\ localStorage' = StorageAfterSetAuth(localStorage, token, userData)
  /\ authCalls' = Append(authCalls, AuthCall("setAuth", <<token>>))

logout ==
  /\ accessToken' = <<>>
  /\ user' = <<>>
  /\ localStorage' =
       removeItem(removeItem(removeItem(localStorage, "access_token"), "user"),
                  "isLoggedIn")
  /\ authCalls' = Append(authCalls, AuthCall("logout", <<>>))
  /\ UNCHANGED <<callbackVars, nonLoginVars>>

\* An update that leaves the stored copy as it is.
updateUserInMemory(userData) ==
  /\ user' = IF user # <<>> THEN <<Spread(user[1], userData)>> ELSE user
  /\ authCalls' = Append(authCalls, AuthCall("updateUser", <<>>))
  /\ UNCHANGED <<accessToken, localStorage, callbackVars, nonLoginVars>>

updateUser(userData) ==
  /\ IF user # <<>>
     THEN LET merged == <<Spread(user[1], userData)>>
          IN /\ user' = merged
             /\ localStorage' = setItem(localStorage, "user", JSONStringify(merged))
     ELSE UNCHANGED <<user, localStorage>>
  /\ authCalls' = Append(authCalls, AuthCall("updateUser", <<>>))
  /\ UNCHANGED <<accessToken, callbackVars, nonLoginVars>>

\* The page is loaded again: the store is set up over localStorage.
PageReload ==
  /\ accessToken' = useAuthStore(localStorage).accessToken
  /\ user' = useAuthStore(localStorage).user
  /\ UNCHANGED <<localStorage, authCalls, callbackVars, nonLoginVars>>

SetAuthCall ==
  /\ Len(authCalls) < MaxAuthCalls
  /\ \E token \in Tokens, userData \in UserInputs : setAuth(token, userData)
  /\ UNCHANGED <<callbackVars, nonLoginVars>>

LogoutCall == Len(authCalls) < MaxAuthCalls /\ logout

UpdateUserCall ==
  /\ Len(authCalls) < MaxAuthCalls
  /\ \E userData \in UserUpdates : updateUser(userData)

(***************************************************************************)
(* OAuth callback view (src/unnamed/part_001): the onMounted hook          *)
(*                                                                         *)
(* The hook is an async function without an await: it runs to its end in   *)
(* one step.  The timer it sets fires in a later step.                     *)
(***************************************************************************)

\* A parameter that is in the URL and not empty (a truthy string).
HasToken == urlParams.access_token # <<>> /\ urlParams.access_token[1] # <<>>

HasUserParam == urlParams.user # <<>> /\ urlParams.user[1].kind # "empty"

\* What the hook leaves in error and loading on a path that fails.
Fails(message) ==
  /\ error' = message
  /\ loading' = FALSE
  /\ UNCHANGED <<authVars, redirect>>

\* The branch taken when the URL carries a token and a user: the user is
\* decoded and parsed, an exception goes to the catch block.
StoreLogin ==
  LET decoded  == decodeURIComponent(urlParams.user[1])
      userData == JSONParse(decoded.text)
  IN IF decoded.threw \/ userData.threw
     THEN Fails(<<"Failed to process login callback">>)
     ELSE /\ setAuth(urlParams.access_token[1], userData.value)
          /\ redirect' = "scheduled"
          /\ UNCHANGED <<loading, error>>

\* The branch for a URL without token or user.
HandleCode ==
  IF urlParams.error # <<>>
  THEN Fails(<<"OAuth error: ", urlParams.error[1]>>)
  ELSE IF urlParams.code = <<>>
  THEN Fails(<<"No authorization code received">>)
  ELSE Fails(<<"OAuth callback handling not fully implemented">>)

\* A hook that asks for the token only.
onMountedTokenOnly ==
  /\ route = "OAuthCallback" /\ ~handled
  /\ handled' = TRUE
  /\ IF HasToken
     THEN IF urlParams.user = <<>>
          THEN /\ setAuth(urlParams.access_token[1], <<>>)
               /\ redirect' = "scheduled"
               /\ UNCHANGED <<loading, error>>
          ELSE StoreLogin
     ELSE HandleCode
  /\ UNCHANGED <<urlParams, route, nonLoginVars>>

onMounted ==
  /\ route = "OAuthCallback" /\ ~handled
  /\ handled' = TRUE
  /\ IF HasToken /\ HasUserParam THEN StoreLogin ELSE HandleCode
  /\ UNCHANGED <<urlParams, route, nonLoginVars>>

\* setTimeout(() => router.push({ name: 'ProjectsView' }), 1500)
RedirectFires ==
  /\ redirect = "scheduled"
  /\ redirect' = "fired"
  /\ route' = "ProjectsView"
  /\ UNCHANGED <<urlParams, loading, error, handled, authVars, nonLoginVars>>

goToLogin ==
  /\ route' = "Login"
  /\ UNCHANGED <<urlParams, loading, error, redirect, handled, authVars,
                 nonLoginVars>>

\* What the template of the callback view renders.
CallbackView ==
  IF loading THEN "Processing login..."
  ELSE IF error # <<>> THEN "Login Failed"
  ELSE "Login Successful!"

\* The "Try Again" button is rendered in the "Login Failed" state.
TryAgainClick ==
  route = "OAuthCallback" /\ CallbackView = "Login Failed" /\ goToLogin

(***************************************************************************)
(* Spec: the budget view under edits                                       *)
(***************************************************************************)

Init == InitBudgetView(EditBudgets, {<<SmallBudget>>})

Next ==
  \/ SelectChange
  \/ confirmProjectChange
  \/ EditClick
  \/ AmountInput
  \/ SaveClick
  \/ cancelBudgetEdit
  \/ StoreSelectionChanges

Spec == Init /\ [][Next]_vars

(***************************************************************************)
(* SpecBreakdown: the breakdown computed over the enumerated budget        *)
(* objects; switching the project evaluates it.                            *)
(***************************************************************************)

InitBreakdown ==
  InitBudgetView({<<>>} \cup {<<b>> : b \in InputBudgets}, {<<>>, <<ExampleBudget>>})

NextBreakdown ==
  \/ SelectChange
  \/ confirmProjectChange

SpecBreakdown == InitBreakdown /\ [][NextBreakdown]_vars

(***************************************************************************)
(* SpecAnalysis: projects start without a ScriptBreakdown, get the         *)
(* normalized one attached and are then edited.                            *)
(***************************************************************************)

InitAnalysis == InitBudgetView({<<>>}, {<<>>})

NextAnalysis ==
  \/ ModelResponse
  \/ Attach
  \/ SelectChange
  \/ confirmProjectChange
  \/ EditClick
  \/ AmountInput
  \/ SaveClick
  \/ cancelBudgetEdit

SpecAnalysis == InitAnalysis /\ [][NextAnalysis]_vars

(***************************************************************************)
(* SpecChat: the chat panel, open over a budget view with two projects.    *)
(***************************************************************************)

InitChat == InitBudgetView({<<ExampleBudget>>}, {<<SmallBudget>>})

NextChat ==
  \/ OpenAI
  \/ CloseAI
  \/ MessageInput
  \/ SendClick
  \/ FileSelect
  \/ FileDrop
  \/ BackendReplies
  \/ RequestFails
  \/ ChatResumes
  \/ UploadResumes

SpecChat == InitChat /\ [][NextChat]_vars

(***************************************************************************)
(* SpecChatLive: the chat panel with calls that wait a bounded time.  The  *)
(* timer of a pending call fires, and the event loop runs the function     *)
(* that awaits a settled call.                                             *)
(***************************************************************************)

NextChatLive == NextChat \/ RequestTimesOut

SpecChatLive ==
  /\ InitChat
  /\ [][NextChatLive]_vars
  /\ WF_vars(RequestTimesOut)
  /\ WF_vars(ChatResumes)
  /\ WF_vars(UploadResumes)

(***************************************************************************)
(* SpecStatus: status changes from the menus of the project cards.         *)
(***************************************************************************)

InitStatus == InitBudgetView({<<ExampleBudget>>}, {<<SmallBudget>>})

NextStatus ==
  \/ OpenMenu
  \/ StatusClick
  \/ StoreReturns
  \/ StatusResumes

SpecStatus == InitStatus /\ [][NextStatus]_vars

(***************************************************************************)
(* SpecNormalizer: the Normalizer applied to parsed responses.             *)
(***************************************************************************)

InitNormalizer == InitBudgetView({<<>>}, {<<>>})

NextNormalizer == Parsed \/ Normalize

SpecNormalizer == InitNormalizer /\ [][NextNormalizer]_vars

(***************************************************************************)
(* SpecHistory: sendMessage in a panel that holds a conversation as long   *)
(* as the history sent with a request, or longer.                          *)
(***************************************************************************)

InitHistory ==
  /\ InitBudget({<<ExampleBudget>>}, {<<SmallBudget>>})
  /\ InitPanel(Conversations, TRUE)
  /\ InitAuthStore({EmptyStorage})
  /\ NoCallback

NextHistory ==
  \/ MessageInput
  \/ SendClick
  \/ BackendReplies
  \/ RequestFails
  \/ ChatResumes

SpecHistory == InitHistory /\ [][NextHistory]_vars

(***************************************************************************)
(* SpecAuth: the auth store under its actions, set up over the storage of  *)
(* an earlier visit, with page reloads in between.                         *)
(***************************************************************************)

InitAuth ==
  /\ InitBudget({<<ExampleBudget>>}, {<<SmallBudget>>})
  /\ selectedProjectTitle = "A"
  /\ InitPanel({<<>>}, FALSE)
  /\ InitAuthStore(Storages)
  /\ NoCallback

NextAuth ==
  \/ SetAuthCall
  \/ LogoutCall
  \/ UpdateUserCall
  \/ PageReload

SpecAuth == InitAuth /\ [][NextAuth]_vars

(***************************************************************************)
(* SpecCallback: the OAuth callback view opened at each of the URLs.       *)
(***************************************************************************)

InitOAuthCallback ==
  /\ InitBudget({<<ExampleBudget>>}, {<<SmallBudget>>})
  /\ selectedProjectTitle = "A"
  /\ InitPanel({<<>>}, FALSE)
  /\ InitAuthStore(Storages)
  /\ InitCallback(Urls)

NextCallback ==
  \/ onMounted
  \/ RedirectFires
  \/ TryAgainClick

SpecCallback == InitOAuthCallback /\ [][NextCallback]_vars

(***************************************************************************)
(* Definitions shared by the properties                                    *)
(***************************************************************************)

\* The budget object of the selected project, <<>> when there is none.
SelectedBudget ==
  LET i == FindProject(projects, selectedProjectTitle)
  IN IF i = 0 \/ projects[i].scriptBreakdown = <<>> THEN <<>>
     ELSE projects[i].scriptBreakdown[1]

HasSelectedBudget ==
  LET i == FindProject(projects, selectedProjectTitle)
  IN i # 0 /\ projects[i].scriptBreakdown # <<>>

\* The amounts of all entries are numbers.
AllAmountsNumbers(budgetObj) ==
  \A i \in 1..Len(budgetObj) : ~parseRM(budgetObj[i].val).nan

\* The sum of the amounts of all entries, counted entry by entry from the
\* front (for a budget object whose amounts are all numbers).
RECURSIVE TotalFrom(_, _)
TotalFrom(budgetObj, i) ==
  IF i > Len(budgetObj) THEN 0
  ELSE parseRM(budgetObj[i].val).v + TotalFrom(budgetObj, i + 1)

\* percent, a number with one decimal, is amount / total * 100 rounded to
\* one decimal: it is within 0.05 of the quotient.
IsRoundedPercent(percent, amount, total) ==
  /\ ~percent.nan
  /\ percent.v % (Scale \div 10) = 0
  /\ LET p == percent.v \div (Scale \div 10)
         x == Tenths(amount, total)
     IN \/ p = x.q /\ 2 * x.r <= total
        \/ p = x.q + 1 /\ 2 * x.r >= total

\* amount is at least 0.05 % of total: amount / total * 100 rounds to 0.1 or
\* more.
RoundsAboveZero(amount, total) ==
  LET x == Tenths(amount, total) IN x.q > 0 \/ 2 * x.r >= total

\* The entries of budgetObj that item can have been built from.
SourcesOf(item, budgetObj) ==
  { i \in 1..Len(budgetObj) : formatCategoryName(budgetObj[i].key) = item.name }

(***************************************************************************)
(* C1: when the amounts of the budget object sum to total > 0, every       *)
(* displayed category has percent = amount / total * 100 rounded to one    *)
(* decimal, total being the sum over all entries, displayed or not; when   *)
(* total is 0 nothing with a non-zero percent is displayed.                *)
(***************************************************************************)
C1_PercentOfTotal ==
  (HasSelectedBudget /\ AllAmountsNumbers(SelectedBudget)) =>
    LET total == TotalFrom(SelectedBudget, 1)
    IN /\ total > 0 =>
            \A n \in 1..Len(shown) :
              \E i \in SourcesOf(shown[n], SelectedBudget) :
                IsRoundedPercent(shown[n].percent,
                                 parseRM(SelectedBudget[i].val).v, total)
       /\ total = 0 => shown = <<>>

\* A displayed percent that needed rounding, next to an entry that counts in
\* the total without being displayed.
C1_Witness ==
  /\ HasSelectedBudget /\ AllAmountsNumbers(SelectedBudget)
  /\ Len(shown) >= 2
  /\ Len(shown) < Len(SelectedBudget)
  /\ \E n \in 1..Len(shown), i \in 1..Len(SelectedBudget) :
       /\ i \in SourcesOf(shown[n], SelectedBudget)
       /\ Tenths(parseRM(SelectedBudget[i].val).v, TotalFrom(SelectedBudget, 1)).r # 0
  /\ \E i \in 1..Len(SelectedBudget) :
       /\ parseRM(SelectedBudget[i].val).v > 0
       /\ \A n \in 1..Len(shown) : i \notin SourcesOf(shown[n], SelectedBudget)

\* The place of a display name in the enumeration talent, location, propsSet,
\* wardrobeMakeup, sfxVfx, crew, miscellaneous; 0 for any other name.
EnumerationPlace(name) ==
  IF \E i \in 1..Len(CategoryKeys) : nameMap[CategoryKeys[i]] = name
  THEN CHOOSE i \in 1..Len(CategoryKeys) : nameMap[CategoryKeys[i]] = name
  ELSE 0

\* The place in budgetObj of the first entry an item can have been built from.
PlaceIn(budgetObj, item) ==
  CHOOSE i \in SourcesOf(item, budgetObj) :
    \A j \in SourcesOf(item, budgetObj) : i <= j

(***************************************************************************)
(* C2 as claimed: the display is sorted by descending percent and          *)
(* categories of equal percent appear in the fixed enumeration order,      *)
(* whatever the key order of the budget object.                            *)
(***************************************************************************)
C2_TiesInEnumerationOrder ==
  \A m, n \in 1..Len(shown) :
    m < n =>
      \/ NumGt(shown[m].percent, shown[n].percent)
      \/ /\ NumEq(shown[m].percent, shown[n].percent)
         /\ (EnumerationPlace(shown[m].name) # 0 /\ EnumerationPlace(shown[n].name) # 0)
              => EnumerationPlace(shown[m].name) < EnumerationPlace(shown[n].name)

(***************************************************************************)
(* C2 amended: the display is sorted by descending percent and categories  *)
(* of equal percent appear in the key order of the budget object.          *)
(***************************************************************************)
C2_TiesInKeyOrder ==
  \A m, n \in 1..Len(shown) :
    m < n =>
      /\ SourcesOf(shown[m], SelectedBudget) # {}
      /\ SourcesOf(shown[n], SelectedBudget) # {}
      /\ \/ NumGt(shown[m].percent, shown[n].percent)
         \/ /\ NumEq(shown[m].percent, shown[n].percent)
            /\ PlaceIn(SelectedBudget, shown[m]) < PlaceIn(SelectedBudget, shown[n])

\* Two displayed categories of equal percent whose keys come in the budget
\* object in the opposite of the enumeration order.
C2_Witness ==
  \E m, n \in 1..Len(shown) :
    /\ m < n
    /\ NumEq(shown[m].percent, shown[n].percent)
    /\ EnumerationPlace(shown[n].name) # 0
    /\ EnumerationPlace(shown[n].name) < EnumerationPlace(shown[m].name)

(***************************************************************************)
(* C4 as claimed: parsing an amount always yields a non-negative number    *)
(* (0 for a string that is no amount), so the total and every percent of   *)
(* a budget object are numbers.                                            *)
(***************************************************************************)
C4_AmountsAreNumbers ==
  HasSelectedBudget =>
    /\ \A i \in 1..Len(SelectedBudget) :
         /\ ~parseRM(SelectedBudget[i].val).nan
         /\ parseRM(SelectedBudget[i].val).v >= 0
    /\ ~SumAmounts(SelectedBudget).nan
    /\ \A i \in 1..Len(SelectedBudget) :
         NumGt(SumAmounts(SelectedBudget), Num(0)) =>
           ~CategoryItem(SelectedBudget[i], SumAmounts(SelectedBudget)).percent.nan

(***************************************************************************)
(* C5: for {talent: "RM 400", crew: "RM 900", propsSet: "RM 530",          *)
(* location: "RM 300"} the total is 2130, the percents are talent 18.8,    *)
(* crew 42.3, propsSet 24.9, location 14.1 and the display order is crew,  *)
(* propsSet, talent, location.                                             *)
(***************************************************************************)
C5_Example ==
  (HasSelectedBudget /\ SelectedBudget = ExampleBudget) =>
    /\ TotalFrom(SelectedBudget, 1) = 2130 * Scale
    /\ [n \in 1..Len(shown) |-> shown[n].name]
         = <<nameMap[K_crew], nameMap[K_propsSet], nameMap[K_talent],
             nameMap[K_location]>>
    /\ [n \in 1..Len(shown) |-> shown[n].percent]
         = <<Num(423 * (Scale \div 10)), Num(249 * (Scale \div 10)),
             Num(188 * (Scale \div 10)), Num(141 * (Scale \div 10))>>

C5_Witness ==
  /\ HasSelectedBudget
  /\ SelectedBudget = ExampleBudget
  /\ Len(shown) = 4
  /\ shown[1].name = nameMap[K_crew]

FixedNames == {nameMap[k] : k \in CategoryKeySet}

\* The sum of the amounts of the entries whose key is outside the fixed seven.
RECURSIVE UnknownTotalFrom(_, _)
UnknownTotalFrom(budgetObj, i) ==
  IF i > Len(budgetObj) THEN 0
  ELSE (IF budgetObj[i].key \in CategoryKeySet THEN 0
        ELSE parseRM(budgetObj[i].val).v)
       + UnknownTotalFrom(budgetObj, i + 1)

(***************************************************************************)
(* C8 as claimed: a key outside the fixed seven never appears as a         *)
(* category of its own; its amount is added to miscellaneous, so every     *)
(* displayed category is one of the fixed seven.                           *)
(***************************************************************************)
C8_UnknownKeysMerged ==
  (HasSelectedBudget /\ AllAmountsNumbers(SelectedBudget)) =>
    /\ \A n \in 1..Len(shown) : shown[n].name \in FixedNames
    /\ \A n \in 1..Len(shown), i \in 1..Len(SelectedBudget) :
         (shown[n].name = nameMap[K_miscellaneous]
            /\ SelectedBudget[i].key = K_miscellaneous) =>
           IsRoundedPercent(shown[n].percent,
                            parseRM(SelectedBudget[i].val).v
                              + UnknownTotalFrom(SelectedBudget, 1),
                            TotalFrom(SelectedBudget, 1))

(***************************************************************************)
(* C8 amended: a key outside the fixed seven whose amount is at least      *)
(* 0.05 % of the total is displayed as a category of its own, under the    *)
(* fall-back name (equipmentRental as "Equipment Rental") and the colour   *)
(* #888888, with the percent of its own amount; miscellaneous is displayed *)
(* with the percent of its own amount alone; the total counts every key.   *)
(***************************************************************************)
C8_UnknownKeysDisplayed ==
  (HasSelectedBudget /\ AllAmountsNumbers(SelectedBudget)
     /\ TotalFrom(SelectedBudget, 1) > 0) =>
    LET total == TotalFrom(SelectedBudget, 1)
    IN /\ \A i \in 1..Len(SelectedBudget) :
            (SelectedBudget[i].key \notin CategoryKeySet
               /\ RoundsAboveZero(parseRM(SelectedBudget[i].val).v, total)) =>
              \E n \in 1..Len(shown) :
                /\ shown[n].name \notin FixedNames
                /\ SelectedBudget[i].key = K_equipmentRental =>
                     shown[n].name =
                       <<"E", "q", "u", "i", "p", "m", "e", "n", "t", " ",
                         "R", "e", "n", "t", "a", "l">>
                /\ shown[n].color = "#888888"
                /\ IsRoundedPercent(shown[n].percent,
                                    parseRM(SelectedBudget[i].val).v, total)
       /\ \A n \in 1..Len(shown), i \in 1..Len(SelectedBudget) :
            (shown[n].name = nameMap[K_miscellaneous]
               /\ SelectedBudget[i].key = K_miscellaneous) =>
              IsRoundedPercent(shown[n].percent,
                               parseRM(SelectedBudget[i].val).v, total)

\* A key outside the fixed seven displayed next to miscellaneous.
C8_Witness ==
  /\ HasSelectedBudget
  /\ \E m, n \in 1..Len(shown) :
       /\ shown[m].name \notin FixedNames
       /\ shown[n].name = nameMap[K_miscellaneous]
  /\ UnknownTotalFrom(SelectedBudget, 1) > 0

(***************************************************************************)
(* C3: computing the display never modifies the budget object.  A          *)
(* category whose amount is 0 is absent from the display while its key and *)
(* value stay in the budget object: no step adds or removes a key, and a   *)
(* value changes only when saveBudgetEdit writes the entered amount to the *)
(* selected project.                                                       *)
(***************************************************************************)
ZeroAmountsNotDisplayed ==
  HasSelectedBudget =>
    \A i \in 1..Len(SelectedBudget) :
      NumEq(parseRM(SelectedBudget[i].val), Num(0)) =>
        \A n \in 1..Len(shown) : i \notin SourcesOf(shown[n], SelectedBudget)

BudgetChangesOnlyBySave ==
  /\ Len(projects') = Len(projects)
  /\ \A p \in 1..Len(projects) :
       LET old == projects[p].scriptBreakdown
           new == projects'[p].scriptBreakdown
       IN /\ (old = <<>>) <=> (new = <<>>)
          /\ old # <<>> =>
               /\ KeysOf(new[1]) = KeysOf(old[1])
               /\ \A k \in 1..Len(old[1]) :
                    new[1][k].val # old[1][k].val =>
                      /\ editingCategory # <<>>
                      /\ editingCategory' = <<>>
                      /\ p = FindProject(projects, selectedProjectTitle)
                      /\ new[1][k].val = RM(NumberToString(ToNumber(editAmount)))

C3_DisplayLeavesBudget ==
  []ZeroAmountsNotDisplayed /\ [][BudgetChangesOnlyBySave]_vars

\* After an edit the display has been computed again for a budget object
\* that holds a category of amount 0, which is not displayed.
C3_Witness ==
  /\ edits >= 1
  /\ HasSelectedBudget
  /\ Len(shown) >= 1
  /\ \E i \in 1..Len(SelectedBudget) :
       /\ SelectedBudget[i].val = V_RM0
       /\ \A n \in 1..Len(shown) : i \notin SourcesOf(shown[n], SelectedBudget)

(***************************************************************************)
(* Forms of amount strings                                                 *)
(***************************************************************************)

HasRMPrefix(s) == Len(s) >= 4 /\ SubSeq(s, 1, 3) = <<"R", "M", " ">>

\* Digits with at most one decimal point and nothing else.
IsPlainNumeral(s) ==
  /\ s # <<>>
  /\ \A i \in 1..Len(s) : s[i] \in Digits \cup {"."}
  /\ CountChar(s, ".") <= 1
  /\ s[1] \in Digits
  /\ s[Len(s)] \in Digits

\* A numeral whose integer part is written in groups of three digits
\* separated by ",", as in 2,130 or 2,500.5 or 900.
IsGroupedNumeral(s) ==
  LET dot  == IndexOf(s, ".")
      int  == IF dot = 0 THEN s ELSE SubSeq(s, 1, dot - 1)
      frac == IF dot = 0 THEN <<>> ELSE SubSeq(s, dot + 1, Len(s))
  IN /\ int # <<>>
     /\ int[1] \in Digits
     /\ \A i \in 1..Len(int) :
          IF (Len(int) - i + 1) % 4 = 0 THEN int[i] = "," ELSE int[i] \in Digits
     /\ dot # 0 => frac # <<>>
     /\ \A i \in 1..Len(frac) : frac[i] \in Digits

\* The values a step stores in a budget object.
StoredValues ==
  { projects'[p].scriptBreakdown[1][k].val :
      <<p, k>> \in { <<q, j>> \in (1..Len(projects)) \X (1..14) :
                       /\ projects[q].scriptBreakdown # <<>>
                       /\ projects'[q].scriptBreakdown # <<>>
                       /\ j <= Len(projects'[q].scriptBreakdown[1])
                       /\ (j > Len(projects[q].scriptBreakdown[1])
                           \/ projects'[q].scriptBreakdown[1][j]
                                # projects[q].scriptBreakdown[1][j]) } }

(***************************************************************************)
(* C7 as claimed: every value saveBudgetEdit stores and every amount       *)
(* string of the display is "RM " followed by digits with at most one      *)
(* decimal point and no other symbol.                                      *)
(***************************************************************************)
AmountsShownPlain ==
  \A n \in 1..Len(shown) :
    HasRMPrefix(shown[n].amount)
      /\ IsPlainNumeral(SubSeq(shown[n].amount, 4, Len(shown[n].amount)))

StoredPlain ==
  \A v \in StoredValues : HasRMPrefix(v) /\ IsPlainNumeral(SubSeq(v, 4, Len(v)))

AmountsShownGrouped ==
  \A n \in 1..Len(shown) :
    HasRMPrefix(shown[n].amount)
      /\ IsGroupedNumeral(SubSeq(shown[n].amount, 4, Len(shown[n].amount)))

AllSevenKeys ==
  \A p \in 1..Len(projects) :
    projects[p].scriptBreakdown # <<>> =>
      \A k \in CategoryKeySet : HasKey(projects[p].scriptBreakdown[1], k)

MissingKeysAttachedAsZero ==
  \A p \in 1..Len(projects) :
    (projects[p].scriptBreakdown = <<>> /\ projects'[p].scriptBreakdown # <<>>) =>
      /\ modelOutput[p] # <<>>
      /\ \A k \in CategoryKeySet :
           (~HasKey(modelOutput[p][1], k)
              /\ (k = K_miscellaneous => ~HasExtraKeys(modelOutput[p][1]))) =>
             /\ HasKey(projects'[p].scriptBreakdown[1], k)
             /\ GetKey(projects'[p].scriptBreakdown[1], k) = V_RM0

C6_AllCategoryKeys == []AllSevenKeys /\ [][MissingKeysAttachedAsZero]_vars

\* An edited project whose model output had left out keys.
C6_Witness ==
  /\ edits >= 1
  /\ HasSelectedBudget
  /\ HasKey(SelectedBudget, K_propsSet)
  /\ GetKey(SelectedBudget, K_propsSet) = V_RM0
  /\ \E i \in 1..Len(SelectedBudget) :
       SelectedBudget[i].val = RM(<<"1", "0", "0", "0">>)

(***************************************************************************)
(* Chat panel properties                                                   *)
(***************************************************************************)

\* The extension a file name declares: what follows its last ".", in lower
\* case; none when the name has no ".".
DeclaredExtension(file) ==
  IF CountChar(file.name, ".") = 0 THEN <<>>
  ELSE [i \in 1..Len(LastSegment(file.name)) |-> ToLower(LastSegment(file.name)[i])]

\* The file declares one of the formats PDF, TXT, FDX, by its extension or
\* by its content type.
DeclaresScriptFormat(file) ==
  \/ DeclaredExtension(file) \in
       { <<"p", "d", "f">>, <<"t", "x", "t">>, <<"f", "d", "x">> }
  \/ file.type \in {"application/pdf", "text/plain"}

UploadsDeclareScriptFormat ==
  \A i \in 1..Len(requests) :
    requests[i].kind = "upload" => DeclaresScriptFormat(requests[i].file)

\* A step of uploadFile that issues a request or appends a user message.
UploadAccepted ==
  \/ Len(requests') > Len(requests)
  \/ /\ Len(messages') = Len(messages) + 1
     /\ messages'[Len(messages')].content.kind = "uploaded"

UploadAcceptedOnlyForScriptFormat ==
  UploadAccepted /\ Len(requests') > Len(requests)
                 /\ requests'[Len(requests')].kind = "upload"
    => DeclaresScriptFormat(requests'[Len(requests')].file)

\* C9 (as claimed): uploadFile sends a file to the backend only when the
\* format it declares is PDF, TXT or FDX; any other file gets no user message
\* and no request.  The code also sends Fountain files, and takes the whole
\* name of a file without "." for its extension.
C9_OnlyScriptFormatsSent ==
  []UploadsDeclareScriptFormat /\ [][UploadAcceptedOnlyForScriptFormat]_vars

\* The step in which the function awaiting request i resumes after the
\* request has failed.
FailedRequestResumes ==
  \E i \in 1..Len(requests) :
    requests[i].status = "rejected" /\ requests' = RemoveAt(requests, i)

ErrorKinds == {"connectError", "uploadError"}

FailureScopedToPanel ==
  FailedRequestResumes =>
    /\ Len(messages') = Len(messages) + 1
    /\ SubSeq(messages', 1, Len(messages)) = messages
    /\ messages'[Len(messages')].type = "ai"
    /\ messages'[Len(messages')].content.kind \in ErrorKinds
    /\ isLoading' = FALSE
    /\ projects' = projects
    /\ UNCHANGED <<budgetVars, modelOutput>>

\* C10: when an upload or a chat request fails, the panel appends one error
\* message after the messages it held and sets isLoading to false; the
\* projects, their breakdowns and budgets, and the earlier messages stay as
\* they were.
C10_FailureScopedToPanel == [][FailureScopedToPanel]_vars

\* C10 witness: an upload has failed and, after it, a chat request has
\* failed; both error messages are shown and the panel is idle again.
C10_Witness ==
  /\ \E i \in 1..Len(messages) : messages[i].content.kind = "uploadError"
  /\ Len(messages) > 0
  /\ messages[Len(messages)].content.kind = "connectError"
  /\ ~isLoading
  /\ requests = <<>>

\* The number of requests the backend has still to answer.
PendingCount(reqs) ==
  Cardinality({i \in 1..Len(reqs) : reqs[i].status = "pending"})

\* The step appends a user message: sendMessage or uploadFile was invoked.
UserMessageAppended ==
  /\ Len(messages') = Len(messages) + 1
  /\ messages'[Len(messages')].type = "user"

RequestsOnlyOnInvocation ==
  /\ PendingCount(requests') <= PendingCount(requests) + 1
  /\ PendingCount(requests') > PendingCount(requests) =>
       showAI /\ UserMessageAppended
  /\ FailedRequestResumes => PendingCount(requests') = PendingCount(requests)

\* C11: a step issues at most one backend request, and only a step in which
\* the user invoked sendMessage or uploadFile issues one; the step that
\* handles a failed request issues none (no automatic retry).
C11_NoAutomaticRetry == [][RequestsOnlyOnInvocation]_vars

\* C11 witness: a chat request failed, its error message was shown, and the
\* user has sent a message again, whose request is pending.
C11_Witness ==
  /\ Len(messages) = 3
  /\ messages[2].content.kind = "connectError"
  /\ messages[3].type = "user"
  /\ Len(requests) = 1
  /\ requests[1].status = "pending"

ClosedWithCallInFlight == ~showAI /\ ~showAI' /\ requests # <<>>

AbandonedCallChangesNothing ==
  ClosedWithCallInFlight => UNCHANGED <<messages, isLoading, projects>>

\* C13 (as claimed): once the panel is closed while sendMessage or uploadFile
\* awaits the backend, the completion or failure of the call changes no
\* state: no message is appended, isLoading stays, no project is written.
C13_AbandonedOnClose == [][AbandonedCallChangesNothing]_vars

(***************************************************************************)
(* Status update properties                                                *)
(***************************************************************************)

\* The store call of call i returns in this step, with the given outcomes.
StoreCallReturns(i, outcomes) ==
  /\ statusCalls[i].outcome = "pending"
  /\ Len(statusCalls') = Len(statusCalls)
  /\ statusCalls'[i].outcome \in outcomes

\* changeProjectStatus ends in this step for call i.
StatusCallEnds(i) ==
  /\ statusCalls[i].outcome # "pending"
  /\ statusCalls' = RemoveAt(statusCalls, i)

ReportAppended(kinds) ==
  /\ Len(notifications') = Len(notifications) + 1
  /\ notifications'[Len(notifications')].kind \in kinds

StatusWrittenByStoreOnly ==
  /\ projects' # projects =>
       \E i \in 1..Len(statusCalls) :
         /\ StoreCallReturns(i, {"success"})
         /\ projects' = [projects EXCEPT ![statusCalls[i].project].status =
                                            statusCalls[i].option]
  /\ ReportAppended({"successNotification"}) =>
       \E i \in 1..Len(statusCalls) :
         statusCalls[i].outcome = "success" /\ StatusCallEnds(i)
  /\ \A i \in 1..Len(statusCalls) :
       /\ StoreCallReturns(i, {"failure", "thrown"}) => projects' = projects
       /\ statusCalls[i].outcome \in {"failure", "thrown"} /\ StatusCallEnds(i) =>
            projects' = projects /\ ~ReportAppended({"successNotification"})

\* C14: the status of a project changes only in the step in which the
\* store's updateProjectStatus succeeds, to the option of that call, never in
\* a step of changeProjectStatus; the success notification is emitted only
\* when changeProjectStatus resumes from a call that returned success; a
\* call that returned false or threw leaves the status and emits none.
C14_StatusWrittenByStore == [][StatusWrittenByStoreOnly]_vars

\* C14 witness: one call succeeded and was notified, a later call for the
\* same project failed and left the status the first one set.
C14_Witness ==
  /\ Len(notifications) = 2
  /\ notifications[1].kind = "successNotification"
  /\ notifications[2].kind \in {"failedLog", "errorLog"}
  /\ notifications[2].project = notifications[1].project
  /\ notifications[2].option # notifications[1].option
  /\ projects[notifications[1].project].status = notifications[1].option

\* C15 (as claimed): at most one store update is in progress at any time.
C15_OneStatusUpdateAtATime ==
  Cardinality({i \in 1..Len(statusCalls) : statusCalls[i].outcome = "pending"}) <= 1

MenusClosedAfterCall ==
  \A i \in 1..Len(statusCalls) :
    StatusCallEnds(i) =>
      /\ menuOpen' = FALSE
      /\ statusCalls[i].outcome # "success" => ReportAppended({"failedLog", "errorLog"})

\* C16 (as claimed): when a changeProjectStatus call ends the menus are
\* closed, whether the store update succeeded, returned false or threw, and
\* a failure is reported.
C16_MenusClosedAfterCall == [][MenusClosedAfterCall]_vars

(***************************************************************************)
(* Normalizer properties                                                   *)
(***************************************************************************)

SceneFields ==
  {"number", "heading", "location", "time", "characters", "props", "wardrobe",
   "sfx", "notes", "budget"}

\* Every field of the Scene shape has a value.
HasSceneShape(scene) == \A f \in SceneFields : scene[f] # Absent

AllCategoriesPresent(budgetObj) ==
  \A i \in 1..Len(CategoryKeys) : HasKey(budgetObj, CategoryKeys[i])

AllCategoriesZero(budgetObj) ==
  \A i \in 1..Len(budgetObj) : NumEq(parseRM(budgetObj[i].val), Num(0))

NoTopLevelKeys(raw) ==
  /\ raw.scenes = Absent /\ raw.characters = Absent /\ raw.locations = Absent
  /\ raw.props = Absent /\ raw.budget = Absent

\* C17 (as claimed): the ScriptBreakdown the Normalizer returns has the seven
\* budget categories, and each of its scenes has every field of the Scene
\* shape; for a response without top-level keys it has no scene and the
\* seven categories at zero.
C17_FullyPopulated ==
  normalizedBreakdown # <<>> =>
    /\ AllCategoriesPresent(normalizedBreakdown[1].budget)
    /\ \A i \in 1..Len(normalizedBreakdown[1].scenes) :
         HasSceneShape(normalizedBreakdown[1].scenes[i])
    /\ NoTopLevelKeys(rawResponse[1]) =>
         /\ normalizedBreakdown[1].scenes = <<>>
         /\ AllCategoriesPresent(normalizedBreakdown[1].budget)
         /\ AllCategoriesZero(normalizedBreakdown[1].budget)

\* C18 (as claimed): the scene numbers of the ScriptBreakdown the Normalizer
\* returns increase strictly along the scene sequence.
C18_SceneNumbersIncrease ==
  normalizedBreakdown # <<>> =>
    \A i, j \in 1..Len(normalizedBreakdown[1].scenes) :
      i < j => normalizedBreakdown[1].scenes[i].number[1]
                 < normalizedBreakdown[1].scenes[j].number[1]

\* C19: a panel has at most one backend request outstanding, and isLoading
\* is true exactly while one is.
C19_OneRequestOutstanding ==
  /\ Len(requests) <= 1
  /\ isLoading <=> requests # <<>>

\* C19 witness: a request is pending and the user has typed the next message,
\* which sendMessage does not send while the panel is loading.
C19_Witness ==
  /\ isLoading
  /\ Len(requests) = 1
  /\ requests[1].status = "pending"
  /\ Trim(currentMessage) # <<>>

\* The step in which sendMessage resumes from the settled chat request i.
ChatRequestHandled(i) ==
  /\ requests[i].kind = "chat"
  /\ requests[i].status # "pending"
  /\ requests' = RemoveAt(requests, i)

\* The step appends the user message of sendMessage.
TypedMessageAppended ==
  /\ UserMessageAppended
  /\ messages'[Len(messages')].content.kind = "typed"

\* The step appends one AI message, of one of the kinds, right after the user
\* message of the request, and leaves isLoading false.
OneAIMessageFollows(i, kinds) ==
  /\ messages # <<>>
  /\ messages[Len(messages)] = Message("user", "typed", requests[i].query)
  /\ Len(messages') = Len(messages) + 1
  /\ SubSeq(messages', 1, Len(messages)) = messages
  /\ messages'[Len(messages')].type = "ai"
  /\ messages'[Len(messages')].content.kind \in kinds
  /\ messages'[Len(messages')].content.kind = "response" =>
       messages'[Len(messages')].content.text = requests[i].response
  /\ isLoading' = FALSE

\* The number of requests sendMessage has issued that are still held.
ChatCount(reqs) == Cardinality({i \in 1..Len(reqs) : reqs[i].kind = "chat"})

\* sendMessage sends only a message that is not blank, and only when the
\* panel is not loading; otherwise no message is appended and no request
\* issued.
SendsOnlyWhenAllowed ==
  /\ TypedMessageAppended =>
       /\ ~isLoading
       /\ Trim(currentMessage) # <<>>
       /\ messages'[Len(messages')].content.text = currentMessage
       /\ Len(requests') = Len(requests) + 1
  /\ (Trim(currentMessage) = <<>> \/ isLoading) =>
       ~TypedMessageAppended /\ ChatCount(requests') <= ChatCount(requests)

ReplyFollowsMessage ==
  /\ SendsOnlyWhenAllowed
  /\ \A i \in 1..Len(requests) :
       ChatRequestHandled(i) =>
         OneAIMessageFollows(i, IF requests[i].status = "resolved"
                                THEN {"response"} ELSE {"connectError"})

\* C20 (as claimed): when the request of a user message settles, one AI
\* message is appended after it, the backend's reply on success and the
\* connection-error text on failure, and isLoading is false; a blank input,
\* or a call while loading, appends nothing and issues no request.
C20_ReplyFollowsMessage == [][ReplyFollowsMessage]_vars

AIMessageFollowsMessage ==
  /\ SendsOnlyWhenAllowed
  /\ \A i \in 1..Len(requests) :
       ChatRequestHandled(i) =>
         OneAIMessageFollows(i, IF requests[i].status = "rejected"
                                THEN {"connectError"}
                                ELSE IF requests[i].response # <<>>
                                     THEN {"response"} ELSE {"processingError"})

\* C20 (amended): as claimed, but on success the AI message is the backend's
\* reply only when the reply carries a text; when it carries none, the
\* message is the fixed processing-error text.
C20_AIMessageFollowsMessage == [][AIMessageFollowsMessage]_vars

\* C20 witness: the backend answered a message without a reply text and the
\* processing-error text was appended; the user has typed a blank.
C20_Witness ==
  /\ Len(messages) = 2
  /\ messages[1].type = "user"
  /\ messages[2] = Message("ai", "processingError", <<>>)
  /\ ~isLoading
  /\ currentMessage = <<" ">>

\* The request sendMessage issues in this step, <<>> when it issues none.
IssuedChatRequest ==
  IF Len(requests') = Len(requests) + 1 /\ requests'[Len(requests')].kind = "chat"
  THEN <<requests'[Len(requests')]>> ELSE <<>>

HistoryIsRecentMessages ==
  IssuedChatRequest # <<>> =>
    LET h == IssuedChatRequest[1].history
        n == Len(messages')
    IN /\ Len(h) = (IF n <= 10 THEN n ELSE 10)
       /\ \A k \in 1..Len(h) : h[k] = messages'[n - Len(h) + k]
       /\ h[Len(h)] = Message("user", "typed", currentMessage)
       /\ h[Len(h)].content.text = IssuedChatRequest[1].query

\* C21: the history of a chat request is the last 10 messages of the panel,
\* all of them when there are fewer, in their order, and ends with the user
\* message being sent.
C21_HistoryIsRecentMessages == [][HistoryIsRecentMessages]_vars

\* C21 witness: a request is pending whose history has 10 messages while the
\* panel holds more, so that the oldest were left out.
C21_Witness ==
  \E i \in 1..Len(requests) :
    /\ requests[i].kind = "chat"
    /\ Len(requests[i].history) = 10
    /\ Len(messages) > 10
    /\ requests[i].history[1] # messages[1]

(***************************************************************************)
(* C22: a save with an amount that is not a number or is negative          *)
(***************************************************************************)

\* The modal is open and Number(editAmount) is NaN or below zero.
InvalidAmount ==
  /\ editingCategory # <<>>
  /\ LET newAmount == ToNumber(editAmount)
     IN newAmount.nan \/ NumLt(newAmount, Num(0))

\* A rejected save is a step that changes nothing, so the property is stated
\* over every step taken while the amount is invalid: none changes a project
\* or counts as an edit, and the modal closes only the way cancelBudgetEdit
\* closes it, with the display and the selection as they were.
InvalidAmountIsNotSaved ==
  InvalidAmount =>
    /\ projects' = projects
    /\ edits' = edits
    /\ editingCategory' = <<>> =>
         UNCHANGED <<shown, selectedProjectTitle, selectedProjectLocal>>

OnlyCategoryWritten(before, after, name, text) ==
  /\ KeysOf(after) = KeysOf(before)
  /\ \E k \in 1..Len(before) : formatCategoryName(before[k].key) = name
  /\ \A k \in 1..Len(before) :
       IF formatCategoryName(before[k].key) = name
       THEN after[k].val = text
       ELSE after[k].val = before[k].val

\* A step that stores an amount (the only steps that count an edit) stores
\* the text "RM <amount>" under the edited category of the selected project,
\* in scriptBreakdown and in analysis_data when the project has one, closes
\* the modal and leaves everything else; a step that closes the modal without
\* storing changes no project.
SaveWritesOnlyEditedCategory ==
  /\ edits' # edits =>
       LET i    == FindProject(projects, selectedProjectTitle)
           name == editingCategory[1].name
           text == StoredText(ToNumber(editAmount))
       IN /\ editingCategory # <<>> /\ i # 0
          /\ editingCategory' = <<>> /\ editAmount' = <<>>
          /\ Len(projects') = Len(projects)
          /\ \A j \in 1..Len(projects) :
               /\ projects'[j].title = projects[j].title
               /\ projects'[j].status = projects[j].status
               /\ j # i => projects'[j] = projects[j]
          /\ OnlyCategoryWritten(projects[i].scriptBreakdown[1],
                                 projects'[i].scriptBreakdown[1], name, text)
          /\ IF projects[i].analysis_data = <<>>
             THEN projects'[i].analysis_data = <<>>
             ELSE /\ projects'[i].analysis_data # <<>>
                  /\ OnlyCategoryWritten(projects[i].analysis_data[1],
                                         projects'[i].analysis_data[1], name, text)
          /\ UNCHANGED <<selectedProjectTitle, selectedProjectLocal>>
  /\ (editingCategory # <<>> /\ editingCategory' = <<>> /\ edits' = edits) =>
       projects' = projects

\* C23: a successful saveBudgetEdit changes only the edited category key of
\* the selected project (scriptBreakdown.budget and, when present,
\* analysis_data.script_breakdown.budget, to the same string) and closes the
\* modal; every other category, project, status and title is unchanged, and
\* cancelBudgetEdit changes no budget value.
C23_SaveWritesOnlyEditedCategory == [][SaveWritesOnlyEditedCategory]_vars

\* Two amounts have been saved, the second into a project with analysis data
\* whose display has several categories.
C23_Witness ==
  /\ edits = MaxEdits
  /\ editingCategory = <<>>
  /\ \E i \in 1..Len(projects) :
       /\ projects[i].analysis_data # <<>>
       /\ projects[i].title = selectedProjectTitle
       /\ \E k \in 1..Len(projects[i].scriptBreakdown[1]) :
            /\ projects[i].scriptBreakdown[1][k].val = RM(<<"1", "0", "0", "0">>)
            /\ projects[i].analysis_data[1][k].val = RM(<<"1", "0", "0", "0">>)
  /\ Len(shown) > 1

(***************************************************************************)
(* C24: the project a save writes to                                       *)
(***************************************************************************)

\* The display of the project with index i, as the breakdown computes it.
DisplayOf(i) ==
  IF projects[i].scriptBreakdown = <<>> THEN <<>>
  ELSE BreakdownOf(projects[i].scriptBreakdown[1]).items

\* editingCategory holds an item of the display of the project that was
\* selected when editBudgetCategory ran, and no project changes while the
\* modal is open: a storing step whose project does not display that item
\* writes to another project than the one the modal was opened on.
SaveWritesProjectOfModal ==
  edits' # edits =>
    LET i == FindProject(projects, selectedProjectTitle)
    IN \E n \in 1..Len(DisplayOf(i)) : DisplayOf(i)[n] = editingCategory[1]

\* C24: saveBudgetEdit only ever writes to the project that was selected when
\* editBudgetCategory opened the modal, even if the selected project changes
\* (through the store's selectedProjectTitle watcher) in between.
C24_SaveWritesProjectOfModal == [][SaveWritesProjectOfModal]_vars

(***************************************************************************)
(* C25: saving the pre-filled amount                                       *)
(***************************************************************************)

\* The modal is open on a category of the selected project's display and
\* editAmount is what editBudgetCategory put there.
PrefilledAmountKept ==
  /\ editingCategory # <<>>
  /\ editAmount = NumberToString(parseRM(editingCategory[1].amount))
  /\ LET i == FindProject(projects, selectedProjectTitle)
     IN i # 0 /\ \E n \in 1..Len(DisplayOf(i)) :
                    DisplayOf(i)[n] = editingCategory[1]

\* The parsed amounts of the selected project's budget, key by key.
ParsedAmounts(projs, title) ==
  LET budgetObj == projs[FindProject(projs, title)].scriptBreakdown[1]
  IN [k \in 1..Len(budgetObj) |-> parseRM(budgetObj[k].val)]

SavingPrefilledAmountChangesNothing ==
  (PrefilledAmountKept /\ edits' # edits) =>
    /\ ParsedAmounts(projects', selectedProjectTitle)
         = ParsedAmounts(projects, selectedProjectTitle)
    /\ shown' = shown

\* C25: opening the edit modal on any displayed category and saving without
\* changing the pre-filled amount leaves that category's parsed amount, the
\* total and every percent unchanged.
C25_SavingPrefilledAmountChangesNothing ==
  [][SavingPrefilledAmountChangesNothing]_vars

(***************************************************************************)
(* C26: which categories the display holds                                 *)
(***************************************************************************)

\* The entry with index i of the selected budget has an item in the display.
Displayed(i) ==
  \E n \in 1..Len(shown) :
    shown[n].name = formatCategoryName(SelectedBudget[i].key)

\* The sum of the amounts of the displayed entries, from entry i on.
RECURSIVE DisplayedTotalFrom(_)
DisplayedTotalFrom(i) ==
  IF i > Len(SelectedBudget) THEN 0
  ELSE (IF Displayed(i) THEN parseRM(SelectedBudget[i].val).v ELSE 0)
       + DisplayedTotalFrom(i + 1)

\* The sum of the amounts that are below 0.05 % of total, from entry i on.
RECURSIVE RoundedAwayTotalFrom(_, _)
RoundedAwayTotalFrom(i, total) ==
  IF i > Len(SelectedBudget) THEN 0
  ELSE (IF RoundsAboveZero(parseRM(SelectedBudget[i].val).v, total) THEN 0
        ELSE parseRM(SelectedBudget[i].val).v)
       + RoundedAwayTotalFrom(i + 1, total)

\* C26: when total > 0, every category whose parsed amount is greater than 0
\* appears in the display sequence: only categories with amount 0 are
\* filtered out, so the amounts of the displayed categories sum to the total.
C26_PositiveAmountsDisplayed ==
  (HasSelectedBudget /\ AllAmountsNumbers(SelectedBudget)
     /\ TotalFrom(SelectedBudget, 1) > 0) =>
    /\ \A i \in 1..Len(SelectedBudget) :
         Displayed(i) <=> parseRM(SelectedBudget[i].val).v > 0
    /\ DisplayedTotalFrom(1) = TotalFrom(SelectedBudget, 1)

\* C26 amended: when total > 0, a category appears in the display sequence
\* exactly when its percent, rounded to one decimal, is greater than 0, that
\* is when its amount is at least 0.05 % of the total; a smaller amount, zero
\* or not, is filtered out, so the amounts of the displayed categories sum to
\* the total less the amounts rounded away.
C26_RoundedPercentsDisplayed ==
  (HasSelectedBudget /\ AllAmountsNumbers(SelectedBudget)
     /\ TotalFrom(SelectedBudget, 1) > 0) =>
    LET total == TotalFrom(SelectedBudget, 1)
    IN /\ \A i \in 1..Len(SelectedBudget) :
            Displayed(i) <=> RoundsAboveZero(parseRM(SelectedBudget[i].val).v, total)
       /\ Len(shown) = Cardinality({i \in 1..Len(SelectedBudget) : Displayed(i)})
       /\ DisplayedTotalFrom(1) + RoundedAwayTotalFrom(1, total) = total

\* A budget in which one category is displayed, one has amount 0 and one has
\* a positive amount below 0.05 % of the total.
C26_Witness ==
  /\ HasSelectedBudget /\ AllAmountsNumbers(SelectedBudget)
  /\ shown # <<>>
  /\ \E i, j \in 1..Len(SelectedBudget) :
       /\ parseRM(SelectedBudget[i].val).v = 0 /\ ~Displayed(i)
       /\ parseRM(SelectedBudget[j].val).v > 0 /\ ~Displayed(j)
  /\ RoundedAwayTotalFrom(1, TotalFrom(SelectedBudget, 1)) > 0

(***************************************************************************)
(* C27: the auth store and localStorage                                    *)
(***************************************************************************)

\* a and b are both null, or objects that give the same value for every
\* property (undefined for a property that is missing).
SameUser(a, b) ==
  IF a = <<>> \/ b = <<>> THEN a = b
  ELSE \A k \in {a[1][i].key : i \in 1..Len(a[1])}
                \cup {b[1][i].key : i \in 1..Len(b[1])} :
         Property(a[1], k) = Property(b[1], k)

\* The value the "user" key of localStorage spells, null when it is absent.
StoredUser ==
  IF getItem(localStorage, "user") = <<>> THEN <<>>
  ELSE JSONParse(getItem(localStorage, "user")[1]).value

RECURSIVE LastAuthChange(_)
LastAuthChange(calls) ==
  IF calls = <<>> THEN 0
  ELSE IF calls[Len(calls)].action \in {"setAuth", "logout"} THEN Len(calls)
  ELSE LastAuthChange(SubSeq(calls, 1, Len(calls) - 1))

HeaderFollowsSetAuth ==
  /\ HasKey(getAuthHeaders, "Authorization") <=> isAuthenticated
  /\ LET i == LastAuthChange(authCalls)
     IN i # 0 =>
          IF authCalls[i].action = "setAuth"
          THEN /\ isAuthenticated
               /\ GetKey(getAuthHeaders, "Authorization")
                    = Bearer(authCalls[i].token[1])
          ELSE ~isAuthenticated /\ ~HasKey(getAuthHeaders, "Authorization")

UpdateUserKeepsToken ==
  authCalls' = Append(authCalls, AuthCall("updateUser", <<>>)) =>
    /\ accessToken' = accessToken
    /\ user = <<>> => user' = <<>>

\* C28: getAuthHeaders() carries an Authorization entry exactly when
\* isAuthenticated, with the token of the most recent setAuth; after logout
\* and until the next setAuth isAuthenticated is false and there is no such
\* entry; updateUser never changes the token and never creates a user when
\* none is set.
C28_HeaderFollowsSetAuth == [][HeaderFollowsSetAuth' /\ UpdateUserKeepsToken]_vars

\* A login, a logout and an update, in this order, with a page load between.
C28_Witness ==
  /\ Len(authCalls) = 3
  /\ authCalls[1].action = "setAuth"
  /\ authCalls[2].action = "logout"
  /\ authCalls[3].action = "updateUser"
  /\ ~isAuthenticated
  /\ user = <<>>

(***************************************************************************)
(* C29: when the OAuth callback stores the login                           *)
(***************************************************************************)

\* The URL carries a user parameter that is JSON.
UserParamIsJson == urlParams.user # <<>> /\ urlParams.user[1].kind = "json"

CallbackStoresLoginOnlyWithTokenAndUser ==
  IF ~handled /\ handled'
  THEN LET called == authCalls' # authCalls
       IN /\ called <=> redirect' = "scheduled"
          /\ called =>
               /\ urlParams.access_token # <<>> /\ UserParamIsJson
               /\ authCalls' =
                    Append(authCalls, AuthCall("setAuth", urlParams.access_token))
               /\ accessToken' = urlParams.access_token
               /\ user' = urlParams.user[1].value
               /\ localStorage' =
                    StorageAfterSetAuth(localStorage, urlParams.access_token[1],
                                        urlParams.user[1].value)
          /\ ~called =>
               /\ UNCHANGED <<accessToken, user, localStorage>>
               /\ error' # <<>>
               /\ redirect' = "none"
          /\ ~(urlParams.access_token # <<>> /\ UserParamIsJson) => ~called
  ELSE /\ UNCHANGED authVars
       /\ redirect' = "scheduled" => redirect = "scheduled"

\* C29: the OAuth callback calls authStore.setAuth and schedules the
\* redirect to ProjectsView only when the URL carries both an access_token
\* and a user parameter that parses as JSON; on every other path (error
\* parameter, missing code, code without token, unparsable user) the auth
\* store is unchanged, an error message is set and no redirect to
\* ProjectsView is scheduled.
C29_CallbackStoresLoginOnlyWithTokenAndUser ==
  [][CallbackStoresLoginOnlyWithTokenAndUser]_vars

\* The callback has replaced the login of an earlier visit by the one of the
\* URL, which carried an error parameter as well, and has set the timer.
C29_Witness ==
  /\ handled
  /\ redirect = "scheduled"
  /\ urlParams.error # <<>>
  /\ accessToken = <<<<"t", "2">>>>
  /\ getItem(localStorage, "access_token") = <<<<"t", "2">>>>
  /\ user = <<UserBob>>
  /\ error = <<>>

(***************************************************************************)
(* C30: what the callback view shows when the hook has run                 *)
(***************************************************************************)

\* C30: every run of the OAuth callback handler ends with loading = false, so
\* that the view shows "Login Failed" (error set) or "Login Successful!" (no
\* error); after a successful setAuth the "Login Successful!" state is shown
\* before the redirect fires.
C30_LoadingEnds ==
  handled =>
    /\ loading = FALSE
    /\ CallbackView = (IF error # <<>> THEN "Login Failed" ELSE "Login Successful!")
    /\ redirect = "scheduled" => CallbackView = "Login Successful!"
====
